---------------------------- MODULE Spec2Model ----------------------------
(***************************************************************************)
(* A model of the strategy / position / risk simulation core of the       *)
(* trading bot (src/trading_bot): Position, RiskManager, TradingStrategy, *)
(* Indicators and the Backtester / live tick drivers.                     *)
(*                                                                         *)
(* Numbers.  The program computes in Python floats; the model computes in *)
(* exact rationals [n |-> numerator, d |-> denominator > 0] kept in       *)
(* lowest terms, so that every comparison of the code is decided exactly. *)
(* Float rounding is outside the model.                                   *)
(*                                                                         *)
(* Time.  A timestamp is a record [date, hour]; datetime.date() keeps the *)
(* date field and drops the hour.  `today` is the wall-clock date that    *)
(* date.today() returns; it belongs to the environment.                   *)
(***************************************************************************)
EXTENDS Integers, Sequences, FiniteSets, TLC

VARIABLES
    today,      \* environment: the value date.today() returns
    pos,        \* a stand-alone Position (Position-level specification)
    posOut,     \* the last Position call and what it returned
    rm,         \* a stand-alone RiskManager (RiskManager-level specification)
    rmLog,      \* history of the update_balance calls made on rm (observer)
    mode,       \* which driver runs: "backtest", "live", "twin" (two
                \* backtests side by side) or "strategy" (a bare strategy)
    wick,       \* shape of the candles fed to the driver: low = close - wick
    data,       \* the rows of the driver's frame read so far, oldest first,
                \* with the EMA columns add_emas attaches
    run,        \* the driver: Backtester or TradingBot with its strategy
                \* and Risk Manager
    twin        \* a second Backtester over the same candles, started under
                \* its own wall-clock date: [today, run]

vars == <<today, pos, posOut, rm, rmLog, mode, wick, data, run, twin>>

posVars == <<pos, posOut>>
rmVars  == <<rm, rmLog>>
drvVars == <<mode, wick, data, run, twin>>

---------------------------------------------------------------------------
(* Exact rational arithmetic.                                              *)

Abs(x) == IF x < 0 THEN -x ELSE x

RECURSIVE Gcd(_, _)
Gcd(a, b) == IF b = 0 THEN a ELSE Gcd(b, a % b)

\* n/d in lowest terms with a positive denominator (d # 0).
Norm(n, d) ==
    LET s == IF d < 0 THEN -1 ELSE 1
        g == Gcd(Abs(n), Abs(d))
    IN  [n |-> (s * n) \div g, d |-> (s * d) \div g]

R(k) == [n |-> k, d |-> 1]

RAdd(a, b) ==
    LET g == Gcd(a.d, b.d)
    IN  Norm(a.n * (b.d \div g) + b.n * (a.d \div g), (a.d \div g) * b.d)

RNeg(a) == [n |-> -a.n, d |-> a.d]

RSub(a, b) == RAdd(a, RNeg(b))

RMul(a, b) ==
    LET g1 == Gcd(Abs(a.n), b.d)
        g2 == Gcd(Abs(b.n), a.d)
    IN  Norm((a.n \div g1) * (b.n \div g2), (a.d \div g2) * (b.d \div g1))

\* b # 0
RDiv(a, b) == RMul(a, Norm(b.d, b.n))

RLt(a, b) ==
    LET g == Gcd(a.d, b.d)
    IN  a.n * (b.d \div g) < b.n * (a.d \div g)

RLe(a, b) == a = b \/ RLt(a, b)

RMax(a, b) == IF RLt(a, b) THEN b ELSE a

RAbs(a) == [n |-> Abs(a.n), d |-> a.d]

Zero == R(0)

---------------------------------------------------------------------------
(* Configuration (src/trading_bot/config.py).  Fractions are written as   *)
(* rationals: 0.01 is 1/100.                                              *)

ENTRY_PRICE_TOLERANCE == Norm(1, 100)
RISK_REWARD_RATIO     == Norm(2, 1)
TRAILING_STOP_PERCENT == Norm(1, 100)
RISK_PER_TRADE        == Norm(1, 100)
MAX_DAILY_LOSS        == Norm(3, 100)
MAX_POSITIONS         == 3
INITIAL_BALANCE       == 10000

\* datetime.date(): the calendar date of a timestamp.
DateOf(t) == t.date

Stamp(d, h) == [date |-> d, hour |-> h]

---------------------------------------------------------------------------
(* Position (strategy.py).                                                 *)

\* Position.__init__
Position(entry_price, quantity, stop_loss, take_profit, entry_time) ==
    [entry_price          |-> entry_price,
     quantity             |-> quantity,
     stop_loss            |-> stop_loss,
     take_profit          |-> take_profit,
     entry_time           |-> entry_time,
     trailing_stop_active |-> FALSE,
     highest_price        |-> entry_price]

\* A trailing update that overwrites the stop instead of ratcheting it.
update_trailing_stop_overwrite(p, current_price, trailing_percent) ==
    IF RLt(p.entry_price, current_price)
    THEN LET hp == RMax(p.highest_price, current_price)
         IN  [p EXCEPT !.trailing_stop_active = TRUE,
                       !.highest_price = hp,
                       !.stop_loss = RMul(hp, RSub(R(1), trailing_percent))]
    ELSE p

\* A trailing update that puts the stop the trailing percentage above the
\* high-water mark instead of below it.
update_trailing_stop_above_high(p, current_price, trailing_percent) ==
    IF RLt(p.entry_price, current_price)
    THEN [p EXCEPT !.trailing_stop_active = TRUE,
                   !.highest_price = RMax(p.highest_price, current_price),
                   !.stop_loss = RMax(p.stop_loss,
                                      RMul(RMax(p.highest_price, current_price),
                                           RAdd(R(1), trailing_percent)))]
    ELSE p

\* A trailing update that computes the new stop from the high-water mark
\* it had before the call.
update_trailing_stop_stale_high(p, current_price, trailing_percent) ==
    IF RLt(p.entry_price, current_price)
    THEN [p EXCEPT !.trailing_stop_active = TRUE,
                   !.highest_price = RMax(p.highest_price, current_price),
                   !.stop_loss = RMax(p.stop_loss,
                                      RMul(p.highest_price,
                                           RSub(R(1), trailing_percent)))]
    ELSE p

\* Position.update_trailing_stop
update_trailing_stop(p, current_price, trailing_percent) ==
    IF RLt(p.entry_price, current_price)
    THEN LET hp       == RMax(p.highest_price, current_price)
             new_stop == RMul(hp, RSub(R(1), trailing_percent))
         IN  [p EXCEPT !.trailing_stop_active = TRUE,
                       !.highest_price = hp,
                       !.stop_loss = RMax(p.stop_loss, new_stop)]
    ELSE p

\* An exit test that lets a price equal to the stop or to the take profit
\* pass.
should_exit_strict(p, current_price) ==
    IF RLt(current_price, p.stop_loss) THEN <<TRUE, "Stop Loss">>
    ELSE IF RLt(p.take_profit, current_price) THEN <<TRUE, "Take Profit">>
    ELSE <<FALSE, "">>

\* An exit test that looks at the take profit first.
should_exit_take_profit_first(p, current_price) ==
    IF RLe(p.take_profit, current_price) THEN <<TRUE, "Take Profit">>
    ELSE IF RLe(current_price, p.stop_loss) THEN <<TRUE, "Stop Loss">>
    ELSE <<FALSE, "">>

\* Position.should_exit: <<should_exit, reason>>
should_exit(p, current_price) ==
    IF RLe(current_price, p.stop_loss) THEN <<TRUE, "Stop Loss">>
    ELSE IF RLe(p.take_profit, current_price) THEN <<TRUE, "Take Profit">>
    ELSE <<FALSE, "">>

\* Position.get_pnl
get_pnl(p, current_price) ==
    RMul(RSub(current_price, p.entry_price), p.quantity)

---------------------------------------------------------------------------
(* RiskManager (risk_manager.py).  `raised` is the exception that left    *)
(* the last call, "" when it returned.                                     *)

\* RiskManager.__init__
RiskManager(initial_balance, wallDate) ==
    [initial_balance     |-> initial_balance,
     current_balance     |-> initial_balance,
     daily_start_balance |-> initial_balance,
     daily_pnl           |-> Zero,
     current_date        |-> wallDate,
     trading_halted      |-> FALSE,
     halt_reason         |-> <<"">>,
     raised              |-> ""]

\* RiskManager.reset_daily_tracking
reset_daily_tracking(r, wallDate) ==
    [r EXCEPT !.current_date = wallDate,
              !.daily_start_balance = r.current_balance,
              !.daily_pnl = Zero,
              !.trading_halted = FALSE,
              !.halt_reason = <<"">>]

\* Long division: k further decimal digits of (q + r/d), as <<q', r'>>.
RECURSIVE LongDiv(_, _, _, _)
LongDiv(q, r, d, k) ==
    IF k = 0 THEN <<q, r>>
    ELSE LongDiv(q * 10 + (r * 10) \div d, (r * 10) % d, d, k - 1)

\* f"{x*100:.2f}": x as a percentage with two decimals, given as the signed
\* number of hundredths of a percent, rounded to nearest, ties to even.
FmtPercent2(x) ==
    LET a  == Abs(x.n)
        qr == LongDiv(a \div x.d, a % x.d, x.d, 4)
        up == \/ 2 * qr[2] > x.d
              \/ (2 * qr[2] = x.d /\ qr[1] % 2 = 1)
        m  == IF up THEN qr[1] + 1 ELSE qr[1]
    IN  IF x.n < 0 THEN -m ELSE m

\* A daily-loss check with a strict comparison.
check_daily_loss_limit_strict(r) ==
    IF r.daily_start_balance = Zero
    THEN [r EXCEPT !.raised = "ZeroDivisionError"]
    ELSE LET daily_loss_percent == RDiv(r.daily_pnl, r.daily_start_balance)
         IN  IF RLt(daily_loss_percent, RNeg(MAX_DAILY_LOSS))
             THEN [r EXCEPT !.trading_halted = TRUE,
                            !.halt_reason = <<"Daily loss limit reached: ",
                                 FmtPercent2(daily_loss_percent), "%">>]
             ELSE r

\* RiskManager.check_daily_loss_limit
check_daily_loss_limit(r) ==
    IF r.daily_start_balance = Zero
    THEN [r EXCEPT !.raised = "ZeroDivisionError"]
    ELSE LET daily_loss_percent == RDiv(r.daily_pnl, r.daily_start_balance)
         IN  IF RLe(daily_loss_percent, RNeg(MAX_DAILY_LOSS))
             THEN [r EXCEPT !.trading_halted = TRUE,
                            !.halt_reason = <<"Daily loss limit reached: ",
                                 FmtPercent2(daily_loss_percent), "%">>]
             ELSE r

\* Whether update_balance(pnl, current_time) performs the daily reset.
NewDay(r, current_time) == DateOf(current_time) # r.current_date

\* An update that applies the pnl first and performs the daily reset after.
update_balance_reset_after(r, pnl, current_time, wallDate) ==
    LET r1 == [r EXCEPT !.current_balance = RAdd(r.current_balance, pnl),
                        !.daily_pnl = RAdd(r.daily_pnl, pnl),
                        !.raised = ""]
        r2 == IF NewDay(r, current_time)
              THEN reset_daily_tracking(r1, wallDate) ELSE r1
    IN  check_daily_loss_limit(r2)

\* RiskManager.update_balance
update_balance(r, pnl, current_time, wallDate) ==
    LET r1 == IF NewDay(r, current_time)
              THEN reset_daily_tracking(r, wallDate) ELSE r
        r2 == [r1 EXCEPT !.current_balance = RAdd(r1.current_balance, pnl),
                         !.daily_pnl = RAdd(r1.daily_pnl, pnl),
                         !.raised = ""]
    IN  check_daily_loss_limit(r2)

\* A gate that looks at the balance before it looks at the halt.
can_trade_balance_first(r) ==
    IF RLe(r.current_balance, Zero)
    THEN <<FALSE, <<"Account balance depleted">>>>
    ELSE IF r.trading_halted THEN <<FALSE, r.halt_reason>>
    ELSE <<TRUE, <<"">>>>

\* RiskManager.can_trade: <<can_trade, reason>>
can_trade(r) ==
    IF r.trading_halted THEN <<FALSE, r.halt_reason>>
    ELSE IF RLe(r.current_balance, Zero)
         THEN <<FALSE, <<"Account balance depleted">>>>
    ELSE <<TRUE, <<"">>>>

\* RiskManager.get_risk_amount
get_risk_amount(r) == RMul(r.current_balance, RISK_PER_TRADE)

---------------------------------------------------------------------------
(* Indicators (indicators.py).  A candle is [timestamp, close, low]: the   *)
(* fields the core reads.  The strategy periods are configuration; the     *)
(* repository configures EMA_SHORT = 20, EMA_LONG = 50 (config.py:17-18)   *)
(* and a swing-low lookback of 10 (strategy.py:175).  The model keeps them *)
(* as parameters and instantiates them with small values, so that the      *)
(* warm-up and the lookback window both fit inside a bounded run.          *)

EMA_SHORT      == 2
EMA_LONG       == 3
SWING_LOOKBACK == 2

Candle(t, close, low) == [timestamp |-> t, close |-> close, low |-> low]

\* Indicators.calculate_ema: ewm(span = period, adjust = False).mean() is
\* y[1] = x[1] and y[k] = a * x[k] + (1 - a) * y[k-1] with a = 2 / (period + 1).
\* ema_step is one step of that recurrence: the value at the row that
\* follows a row whose value is prev (prev is None before the first row).
ema_step(prev, x, period) ==
    LET a == Norm(2, period + 1)
    IN  IF prev = [none |-> TRUE] THEN x
        ELSE RAdd(RMul(a, x), RMul(RSub(R(1), a), prev))

\* Indicators.add_emas, row by row: the rows df (which carry their EMA
\* columns) followed by candle c with its ema_short / ema_long.
add_emas(df, c, short_period, long_period) ==
    LET prev_short == IF df = <<>> THEN [none |-> TRUE] ELSE df[Len(df)].ema_short
        prev_long  == IF df = <<>> THEN [none |-> TRUE] ELSE df[Len(df)].ema_long
    IN  Append(df, [timestamp |-> c.timestamp,
                    close     |-> c.close,
                    low       |-> c.low,
                    ema_short |-> ema_step(prev_short, c.close, short_period),
                    ema_long  |-> ema_step(prev_long, c.close, long_period)])

RECURSIVE SeqMin(_, _, _)
SeqMin(xs, from, to) ==
    IF from = to THEN xs[from]
    ELSE LET m == SeqMin(xs, from + 1, to)
         IN  IF RLt(xs[from], m) THEN xs[from] ELSE m

\* A swing low taken over the whole history, whatever the lookback.
find_swing_low_whole(df, lookback) ==
    SeqMin([k \in 1 .. Len(df) |-> df[k].low], 1, Len(df))

\* Indicators.find_swing_low (df non-empty)
find_swing_low(df, lookback) ==
    LET lb == IF Len(df) < lookback THEN Len(df) ELSE lookback
    IN  SeqMin([k \in 1 .. Len(df) |-> df[k].low], Len(df) - lb + 1, Len(df))

\* Indicators.is_uptrend
is_uptrend(ema_short, ema_long) == RLt(ema_long, ema_short)

\* A tolerance band that excludes its two boundaries.
is_price_near_ema_exclusive(price, ema, tolerance) ==
    LET upper_bound == RMul(ema, RAdd(R(1), tolerance))
        lower_bound == RMul(ema, RSub(R(1), tolerance))
    IN  RLt(lower_bound, price) /\ RLt(price, upper_bound)

\* Indicators.is_price_near_ema
is_price_near_ema(price, ema, tolerance) ==
    LET upper_bound == RMul(ema, RAdd(R(1), tolerance))
        lower_bound == RMul(ema, RSub(R(1), tolerance))
    IN  RLe(lower_bound, price) /\ RLe(price, upper_bound)

---------------------------------------------------------------------------
(* TradingStrategy (strategy.py): [positions, closed_positions].           *)

\* TradingStrategy.__init__
TradingStrategy == [positions |-> <<>>, closed_positions |-> <<>>]

\* A position limit that lets one more position in.
can_open_position_off_by_one(s) == Len(s.positions) <= MAX_POSITIONS

\* TradingStrategy.can_open_position
can_open_position(s) == Len(s.positions) < MAX_POSITIONS

\* TradingStrategy.check_entry_signal
check_entry_signal(df) ==
    IF Len(df) < EMA_LONG THEN FALSE
    ELSE LET latest == df[Len(df)]
         IN  /\ is_uptrend(latest.ema_short, latest.ema_long)
             /\ is_price_near_ema(latest.close, latest.ema_short,
                                  ENTRY_PRICE_TOLERANCE)

\* A position size that spreads the risk budget over the entry price instead
\* of the distance to the stop.
calculate_position_size_by_price(entry_price, stop_loss, account_balance, risk_percent) ==
    LET risk_amount == RMul(account_balance, risk_percent)
        price_diff  == RAbs(RSub(entry_price, stop_loss))
    IN  IF price_diff = Zero THEN Zero ELSE RDiv(risk_amount, entry_price)

\* TradingStrategy.calculate_position_size
calculate_position_size(entry_price, stop_loss, account_balance, risk_percent) ==
    LET risk_amount == RMul(account_balance, risk_percent)
        price_diff  == RAbs(RSub(entry_price, stop_loss))
    IN  IF price_diff = Zero THEN Zero ELSE RDiv(risk_amount, price_diff)

None == [none |-> TRUE]

\* A sizing step that appends the position before it looks at the quantity.
open_position_sized_append_first(s, entry_price, stop_loss, quantity, entry_time) ==
    [strategy |-> [s EXCEPT !.positions = Append(@,
                      Position(entry_price, quantity, stop_loss,
                               RAdd(entry_price,
                                    RMul(RSub(entry_price, stop_loss),
                                         RISK_REWARD_RATIO)),
                               entry_time))],
     position |-> IF RLe(quantity, Zero) THEN None
                  ELSE Position(entry_price, quantity, stop_loss,
                                RAdd(entry_price,
                                     RMul(RSub(entry_price, stop_loss),
                                          RISK_REWARD_RATIO)),
                                entry_time)]

\* TradingStrategy.open_position once the stop is known: take profit,
\* quantity, the `quantity <= 0` refusal, the Position and the append.
open_position_sized(s, entry_price, stop_loss, quantity, entry_time) ==
    IF RLe(quantity, Zero) THEN [strategy |-> s, position |-> None]
    ELSE [strategy |-> [s EXCEPT !.positions = Append(@,
                            Position(entry_price, quantity, stop_loss,
                                     RAdd(entry_price,
                                          RMul(RSub(entry_price, stop_loss),
                                               RISK_REWARD_RATIO)),
                                     entry_time))],
          position |-> Position(entry_price, quantity, stop_loss,
                                RAdd(entry_price,
                                     RMul(RSub(entry_price, stop_loss),
                                          RISK_REWARD_RATIO)),
                                entry_time)]

\* TradingStrategy.open_position from the stop on
open_position_at(s, entry_price, account_balance, risk_percent, stop_loss, entry_time) ==
    open_position_sized(s, entry_price, stop_loss,
                        calculate_position_size(entry_price, stop_loss,
                                                account_balance, risk_percent),
                        entry_time)

\* TradingStrategy.open_position, the stop: the swing low, or 2% under the
\* entry when the swing low is not below the entry price.
stop_loss_for(entry_price, swing) ==
    IF RLe(entry_price, swing) THEN RMul(entry_price, Norm(98, 100)) ELSE swing

\* TradingStrategy.open_position: [strategy, position], position None when
\* the call declines.
open_position(s, entry_price, account_balance, risk_percent, df, entry_time) ==
    IF ~can_open_position(s) THEN [strategy |-> s, position |-> None]
    ELSE open_position_at(s, entry_price, account_balance, risk_percent,
                          stop_loss_for(entry_price,
                                        find_swing_low(df, SWING_LOOKBACK)),
                          entry_time)

\* The closed-trade record update_positions and Backtester.run build.
ClosedRecord(p, price, time, reason) ==
    LET pnl == get_pnl(p, price)
    IN  [entry_price |-> p.entry_price,
         exit_price  |-> price,
         quantity    |-> p.quantity,
         pnl         |-> pnl,
         pnl_percent |-> RMul(RDiv(pnl, RMul(p.entry_price, p.quantity)), R(100)),
         entry_time  |-> p.entry_time,
         exit_time   |-> time,
         exit_reason |-> reason]

\* entry_price * quantity = 0: the pnl_percent division raises
PnlPercentRaises(p) == RMul(p.entry_price, p.quantity) = Zero

\* A loop body that puts the record of a closed position in front of the
\* records already collected.
update_positions_step_lifo(st, k, q, ex, current_price, current_time) ==
    IF ~ex[1]
    THEN [st EXCEPT !.positions[k] = q, !.remaining = Append(@, q)]
    ELSE IF PnlPercentRaises(q)
    THEN [st EXCEPT !.positions[k] = q, !.raised = "ZeroDivisionError"]
    ELSE [st EXCEPT !.positions[k] = q,
                    !.closed = <<ClosedRecord(q, current_price,
                                              current_time, ex[2])>> \o @,
                    !.closed_positions = <<ClosedRecord(q, current_price,
                                              current_time, ex[2])>> \o @]

\* update_positions, the body of the for loop for position k once its
\* trailing stop is updated (q is the position after update_trailing_stop,
\* ex what should_exit returned); yields the next loop state.
update_positions_step(st, k, q, ex, current_price, current_time) ==
    IF ~ex[1]
    THEN [st EXCEPT !.positions[k] = q, !.remaining = Append(@, q)]
    ELSE IF PnlPercentRaises(q)
    THEN [st EXCEPT !.positions[k] = q, !.raised = "ZeroDivisionError"]
    ELSE [st EXCEPT !.positions[k] = q,
                    !.closed = Append(@, ClosedRecord(q, current_price,
                                                      current_time, ex[2])),
                    !.closed_positions = Append(@, ClosedRecord(q, current_price,
                                                      current_time, ex[2]))]

update_positions_exit(st, k, q, current_price, current_time) ==
    update_positions_step(st, k, q, should_exit(q, current_price),
                          current_price, current_time)

\* The for loop of update_positions from position k on.  st carries
\* positions (mutated in place), closed, remaining, closed_positions, raised.
RECURSIVE update_positions_loop(_, _, _, _)
update_positions_loop(st, k, current_price, current_time) ==
    IF k > Len(st.positions) \/ st.raised # "" THEN st
    ELSE update_positions_loop(
             update_positions_exit(st, k,
                 update_trailing_stop(st.positions[k], current_price,
                                      TRAILING_STOP_PERCENT),
                 current_price, current_time),
             k + 1, current_price, current_time)

\* update_positions after the loop: self.positions = remaining_positions
\* unless the loop raised.
update_positions_return(st) ==
    [strategy |-> [positions |-> IF st.raised # "" THEN st.positions
                                 ELSE st.remaining,
                   closed_positions |-> st.closed_positions],
     closed |-> st.closed, raised |-> st.raised]

\* TradingStrategy.update_positions: [strategy, closed, raised]
update_positions(s, current_price, current_time) ==
    update_positions_return(
        update_positions_loop(
            [positions |-> s.positions, closed |-> <<>>,
             remaining |-> <<>>, closed_positions |-> s.closed_positions,
             raised |-> ""],
            1, current_price, current_time))

---------------------------------------------------------------------------
(* Backtester (backtester.py) and the live driver (bot.py).  The state of  *)
(* one driver is the record                                                 *)
(*   [strategy, risk_manager, initial_balance, trades_log, equity_curve,    *)
(*    pc, raised, metrics, opened, last]                                    *)
(* pc is where the driver stands: "loop" (inside run()'s for loop, or      *)
(* between two polls of run_live), "done" (run() returned), "raised" (an   *)
(* exception left run()) or "stopped" (run_live ended on Ctrl+C).  opened counts the positions open_position   *)
(* has created and last describes the latest tick (its index, the records *)
(* update_positions returned, what can_trade() returned, the position      *)
(* opened, the exception raised and whether trading_halted was set when    *)
(* the raising call was made); both only observe.                          *)

NoTick == [i |-> -1, closed |-> <<>>, gate |-> FALSE, opened |-> None,
           raised |-> "", halted_at_raise |-> FALSE]

\* Backtester.__init__ / TradingBot.__init__
Driver(initial_balance, wallDate) ==
    [strategy        |-> TradingStrategy,
     risk_manager    |-> RiskManager(initial_balance, wallDate),
     initial_balance |-> initial_balance,
     trades_log      |-> <<>>,
     equity_curve    |-> <<>>,
     pc              |-> "loop",
     raised          |-> "",
     metrics         |-> None,
     opened          |-> 0,
     last            |-> NoTick]

\* `for closed_pos in closed_positions:` of Backtester.run and of
\* check_and_execute_trades, from record k on: update_balance, then (in the
\* Backtester, keep_log) the trades_log append.  An exception of
\* update_balance ends the loop.  st is [risk_manager, trades_log,
\* halted_at_raise].
report_closed_step(st, rec, r1, keep_log) ==
    IF r1.raised # ""
    THEN [st EXCEPT !.risk_manager = r1,
                    !.halted_at_raise = st.risk_manager.trading_halted]
    ELSE [st EXCEPT !.risk_manager = r1,
                    !.trades_log = IF keep_log THEN Append(@, rec) ELSE @]

RECURSIVE report_closed(_, _, _, _, _, _)
report_closed(st, closed, k, current_time, wallDate, keep_log) ==
    IF k > Len(closed) \/ st.risk_manager.raised # "" THEN st
    ELSE report_closed(
             report_closed_step(st, closed[k],
                 update_balance(st.risk_manager, closed[k].pnl,
                                current_time, wallDate),
                 keep_log),
             closed, k + 1, current_time, wallDate, keep_log)

\* The entry step shared by both drivers once the gate is open:
\* check_entry_signal, then open_position at the current price.
try_entry(s, r, df, current_price, current_time) ==
    IF check_entry_signal(df)
    THEN open_position(s, current_price, r.current_balance, RISK_PER_TRADE,
                       df, current_time)
    ELSE [strategy |-> s, position |-> None]

\* Backtester.run, the condition `can_trade and i >= EMA_LONG`
entry_allowed(gate, i) == gate[1] /\ i >= EMA_LONG

\* An end of iteration that tracks equity only when the iteration closed or
\* opened a position.
backtest_tick_end_equity_on_trade(b, i, up, rep, gate, op) ==
    [b EXCEPT !.strategy = op.strategy,
              !.risk_manager = rep.risk_manager,
              !.trades_log = rep.trades_log,
              !.equity_curve = IF up.closed # <<>> \/ op.position # None
                               THEN Append(@, rep.risk_manager.current_balance)
                               ELSE @,
              !.opened = IF op.position # None THEN @ + 1 ELSE @,
              !.last = [NoTick EXCEPT !.i = i, !.closed = up.closed,
                                      !.gate = gate[1],
                                      !.opened = op.position]]

\* Backtester.run, the end of an iteration that raised nothing: the entry
\* outcome op is stored and the equity point appended.
backtest_tick_end(b, i, up, rep, gate, op) ==
    [b EXCEPT !.strategy = op.strategy,
              !.risk_manager = rep.risk_manager,
              !.trades_log = rep.trades_log,
              !.equity_curve = Append(@, rep.risk_manager.current_balance),
              !.opened = IF op.position # None THEN @ + 1 ELSE @,
              !.last = [NoTick EXCEPT !.i = i, !.closed = up.closed,
                                      !.gate = gate[1],
                                      !.opened = op.position]]

\* An entry part that sizes the entry with the balance the Risk Manager had
\* when the iteration began.
backtest_tick_entry_stale_balance(b, df, i, up, rep, gate) ==
    backtest_tick_end(b, i, up, rep, gate,
        IF entry_allowed(gate, i)
        THEN try_entry(up.strategy, b.risk_manager, df, df[i + 1].close,
                       df[i + 1].timestamp)
        ELSE [strategy |-> up.strategy, position |-> None])

\* Backtester.run, the entry part of an iteration: gate is what can_trade()
\* returned.
backtest_tick_entry(b, df, i, up, rep, gate) ==
    backtest_tick_end(b, i, up, rep, gate,
        IF entry_allowed(gate, i)
        THEN try_entry(up.strategy, rep.risk_manager, df, df[i + 1].close,
                       df[i + 1].timestamp)
        ELSE [strategy |-> up.strategy, position |-> None])

\* Backtester.run, an iteration after its closed positions were reported
\* (rep is what the report loop left): an exception of update_balance
\* leaves run().
backtest_tick_reported(b, df, i, up, rep) ==
    IF rep.risk_manager.raised # ""
    THEN [b EXCEPT !.strategy = up.strategy,
                   !.risk_manager = rep.risk_manager,
                   !.trades_log = rep.trades_log, !.pc = "raised",
                   !.raised = rep.risk_manager.raised,
                   !.last = [NoTick EXCEPT !.i = i, !.closed = up.closed,
                                           !.raised = rep.risk_manager.raised,
                                           !.halted_at_raise = rep.halted_at_raise]]
    ELSE backtest_tick_entry(b, df, i, up, rep, can_trade(rep.risk_manager))

\* Backtester.run, an iteration after update_positions returned up.
backtest_tick_updated(b, df, i, wallDate, up) ==
    IF up.raised # ""
    THEN [b EXCEPT !.strategy = up.strategy, !.pc = "raised",
                   !.raised = up.raised,
                   !.last = [NoTick EXCEPT !.i = i, !.raised = up.raised,
                                           !.halted_at_raise =
                                               b.risk_manager.trading_halted]]
    ELSE backtest_tick_reported(b, df, i, up,
             report_closed([risk_manager |-> [b.risk_manager EXCEPT !.raised = ""],
                            trades_log |-> b.trades_log,
                            halted_at_raise |-> FALSE],
                           up.closed, 1, df[i + 1].timestamp, wallDate, TRUE))

\* Backtester.run, one iteration of the for loop: i is the 0-based index of
\* the candle, df the rows 0 .. i with their EMA columns.
backtest_tick(b, df, i, wallDate) ==
    backtest_tick_updated(b, df, i, wallDate,
        update_positions(b.strategy, df[i + 1].close, df[i + 1].timestamp))

\* A closing-loop step that reports the pnl to the Risk Manager without
\* logging the record.
close_remaining_step_unlogged(st, rec, r1) ==
    IF r1.raised # ""
    THEN [st EXCEPT !.risk_manager = r1, !.raised = r1.raised,
                    !.halted_at_raise = st.risk_manager.trading_halted]
    ELSE [st EXCEPT !.risk_manager = r1]

\* A closing-loop step that logs the record without reporting its pnl to the
\* Risk Manager.
close_remaining_step_unreported(st, rec, r1) ==
    [st EXCEPT !.trades_log = Append(@, rec)]

\* Backtester.run, the closing loop over strategy.positions from position k
\* on.  st is [risk_manager, trades_log, raised, halted_at_raise].
close_remaining_step(st, rec, r1) ==
    IF r1.raised # ""
    THEN [st EXCEPT !.risk_manager = r1, !.raised = r1.raised,
                    !.halted_at_raise = st.risk_manager.trading_halted]
    ELSE [st EXCEPT !.risk_manager = r1, !.trades_log = Append(@, rec)]

close_remaining_record(st, rec, final_time, wallDate) ==
    close_remaining_step(st, rec,
        update_balance(st.risk_manager, rec.pnl, final_time, wallDate))

RECURSIVE close_remaining(_, _, _, _, _, _)
close_remaining(st, positions, k, final_price, final_time, wallDate) ==
    IF k > Len(positions) \/ st.raised # "" THEN st
    ELSE IF PnlPercentRaises(positions[k])
    THEN [st EXCEPT !.raised = "ZeroDivisionError",
                    !.halted_at_raise = st.risk_manager.trading_halted]
    ELSE close_remaining(
             close_remaining_record(st,
                 ClosedRecord(positions[k], final_price, final_time,
                              "Backtest End"),
                 final_time, wallDate),
             positions, k + 1, final_price, final_time, wallDate)

RECURSIVE SumPnl(_, _)
SumPnl(trades, k) ==
    IF k = 0 THEN Zero ELSE RAdd(SumPnl(trades, k - 1), trades[k].pnl)

\* np.maximum.accumulate(equity)[k]
RECURSIVE RunningMax(_, _)
RunningMax(equity, k) ==
    IF k = 1 THEN equity[1] ELSE RMax(RunningMax(equity, k - 1), equity[k])

NaN == [nan |-> TRUE]

\* A drawdown that is reported with its sign.
calculate_max_drawdown_signed(equity_curve) ==
    IF equity_curve = <<>> THEN Zero
    ELSE IF \E k \in 1 .. Len(equity_curve) : RunningMax(equity_curve, k) = Zero
    THEN NaN
    ELSE LET drawdown == [k \in 1 .. Len(equity_curve) |->
                            RMul(RDiv(RSub(equity_curve[k],
                                           RunningMax(equity_curve, k)),
                                      RunningMax(equity_curve, k)), R(100))]
         IN  SeqMin(drawdown, 1, Len(drawdown))

\* Backtester.calculate_max_drawdown.  numpy divides without raising: a zero
\* running maximum yields nan or inf, shown here as NaN.
calculate_max_drawdown(equity_curve) ==
    IF equity_curve = <<>> THEN Zero
    ELSE IF \E k \in 1 .. Len(equity_curve) : RunningMax(equity_curve, k) = Zero
    THEN NaN
    ELSE LET drawdown == [k \in 1 .. Len(equity_curve) |->
                            RMul(RDiv(RSub(equity_curve[k],
                                           RunningMax(equity_curve, k)),
                                      RunningMax(equity_curve, k)), R(100))]
         IN  RAbs(SeqMin(drawdown, 1, Len(drawdown)))

\* A winning trade that need not win anything.
IsWin_or_zero(t) == RLe(Zero, t.pnl)

IsWin(t)  == RLt(Zero, t.pnl)

\* A losing trade that has to lose something.
IsLoss_strict(t) == RLt(t.pnl, Zero)

IsLoss(t) == RLe(t.pnl, Zero)

\* A profit factor that reports the gross profit when nothing was lost.
profit_factor_of_gross(total_wins, total_losses) ==
    IF RLt(Zero, total_losses) THEN RDiv(total_wins, total_losses)
    ELSE total_wins

\* calculate_performance_metrics, `total_wins / total_losses if
\* total_losses > 0 else 0`
profit_factor_of(total_wins, total_losses) ==
    IF RLt(Zero, total_losses) THEN RDiv(total_wins, total_losses) ELSE Zero


\* Backtester.calculate_performance_metrics
calculate_performance_metrics(b) ==
    IF b.trades_log = <<>>
    THEN [total_trades  |-> 0,
          win_rate      |-> Zero,
          profit_factor |-> Zero,
          max_drawdown  |-> Zero,
          final_balance |-> b.initial_balance,
          total_return  |-> Zero,
          avg_win       |-> Zero,
          avg_loss      |-> Zero]
    ELSE
      LET winning_trades == SelectSeq(b.trades_log, IsWin)
          losing_trades  == SelectSeq(b.trades_log, IsLoss)
          total_trades   == Len(b.trades_log)
          win_rate       == RMul(Norm(Len(winning_trades), total_trades), R(100))
          total_wins     == SumPnl(winning_trades, Len(winning_trades))
          total_losses   == RAbs(SumPnl(losing_trades, Len(losing_trades)))
          profit_factor  == profit_factor_of(total_wins, total_losses)
          avg_win        == IF winning_trades # <<>>
                            THEN RDiv(total_wins, R(Len(winning_trades)))
                            ELSE Zero
          avg_loss       == IF losing_trades # <<>>
                            THEN RDiv(total_losses, R(Len(losing_trades)))
                            ELSE Zero
          final_balance  == b.risk_manager.current_balance
      IN  [total_trades    |-> total_trades,
           winning_trades  |-> Len(winning_trades),
           losing_trades   |-> Len(losing_trades),
           win_rate        |-> win_rate,
           profit_factor   |-> profit_factor,
           max_drawdown    |-> calculate_max_drawdown(b.equity_curve),
           initial_balance |-> b.initial_balance,
           final_balance   |-> final_balance,
           total_return    |-> RMul(RDiv(RSub(final_balance, b.initial_balance),
                                         b.initial_balance), R(100)),
           avg_win         |-> avg_win,
           avg_loss        |-> avg_loss,
           total_pnl       |-> RSub(final_balance, b.initial_balance)]

\* The keys print_results reads from the metrics dict, in the order it
\* reads them.
PrintedKeys ==
    <<"initial_balance", "final_balance", "total_return", "total_pnl",
      "total_trades", "winning_trades", "losing_trades", "win_rate",
      "profit_factor", "avg_win", "avg_loss", "max_drawdown">>

\* Backtester.print_results: it computes the metrics again and formats one
\* key after the other; the exception that leaves it, "" when it returns.
print_results(b) ==
    IF \A k \in 1 .. Len(PrintedKeys) :
           PrintedKeys[k] \in DOMAIN calculate_performance_metrics(b)
    THEN "" ELSE "KeyError"

\* Backtester.run once the closing loop has left st: positions = [] and
\* the metrics, unless the loop raised.
backtest_finish_closed(b, st) ==
    IF st.raised # ""
    THEN [b EXCEPT !.risk_manager = st.risk_manager,
                   !.trades_log = st.trades_log,
                   !.pc = "raised", !.raised = st.raised,
                   !.last = [NoTick EXCEPT !.raised = st.raised,
                                           !.halted_at_raise = st.halted_at_raise]]
    ELSE [b EXCEPT !.risk_manager = st.risk_manager,
                   !.trades_log = st.trades_log,
                   !.strategy.positions = <<>>,
                   !.pc = "done",
                   !.metrics = calculate_performance_metrics(
                                   [b EXCEPT !.risk_manager = st.risk_manager,
                                             !.trades_log = st.trades_log])]

\* Backtester.run after the for loop: data.iloc[-1] (IndexError on an empty
\* frame), the closing loop, positions = [], the metrics.
backtest_finish(b, df, wallDate) ==
    IF df = <<>>
    THEN [b EXCEPT !.pc = "raised", !.raised = "IndexError"]
    ELSE backtest_finish_closed(b,
             close_remaining([risk_manager |-> b.risk_manager,
                              trades_log |-> b.trades_log, raised |-> "",
                              halted_at_raise |-> FALSE],
                             b.strategy.positions, 1, df[Len(df)].close,
                             df[Len(df)].timestamp, wallDate))

\* RiskManager.get_stats raises when a division by initial_balance or
\* daily_start_balance is a division by zero (print_status calls it).
get_stats_raises(r) ==
    r.initial_balance = Zero \/ r.daily_start_balance = Zero

\* check_and_execute_trades, its end when nothing raised
live_tick_end(b, df, up, rep, gate, op) ==
    [b EXCEPT !.strategy = op.strategy,
              !.risk_manager = rep.risk_manager,
              !.opened = IF op.position # None THEN @ + 1 ELSE @,
              !.last = [NoTick EXCEPT !.i = Len(df) - 1, !.closed = up.closed,
                                      !.gate = gate[1],
                                      !.opened = op.position]]

\* check_and_execute_trades, `if not can_trade: return` and the entry
live_tick_entry(b, df, current_price, current_time, up, rep, gate) ==
    live_tick_end(b, df, up, rep, gate,
        IF gate[1]
        THEN try_entry(up.strategy, rep.risk_manager, df, current_price,
                       current_time)
        ELSE [strategy |-> up.strategy, position |-> None])

\* check_and_execute_trades after its closed positions were reported
live_tick_reported(b, df, current_price, current_time, up, rep) ==
    IF rep.risk_manager.raised # ""
    THEN [b EXCEPT !.strategy = up.strategy,
                   !.risk_manager = rep.risk_manager,
                   !.last = [NoTick EXCEPT !.i = Len(df) - 1,
                                           !.closed = up.closed,
                                           !.raised = rep.risk_manager.raised,
                                           !.halted_at_raise = rep.halted_at_raise]]
    ELSE live_tick_entry(b, df, current_price, current_time, up, rep,
                         can_trade(rep.risk_manager))

\* check_and_execute_trades after update_positions returned up
live_tick_updated(b, df, current_price, current_time, wallDate, up) ==
    IF up.raised # ""
    THEN [b EXCEPT !.strategy = up.strategy,
                   !.last = [NoTick EXCEPT !.i = Len(df) - 1,
                                           !.raised = up.raised,
                                           !.halted_at_raise =
                                               b.risk_manager.trading_halted]]
    ELSE live_tick_reported(b, df, current_price, current_time, up,
             report_closed([risk_manager |-> [b.risk_manager EXCEPT !.raised = ""],
                            trades_log |-> b.trades_log,
                            halted_at_raise |-> FALSE],
                           up.closed, 1, current_time, wallDate, FALSE))

\* TradingBot.check_and_execute_trades
check_and_execute_trades(b, df, current_price, current_time, wallDate) ==
    live_tick_updated(b, df, current_price, current_time, wallDate,
        update_positions(b.strategy, current_price, current_time))

\* check_and_execute_trades cut short by a KeyboardInterrupt that arrives
\* after update_positions returned up and the first j closed positions were
\* reported (rep is what that part of the report loop left).  `except
\* Exception` of run_once does not catch it; run_live does, and stops.
live_tick_interrupted(b, df, up, rep) ==
    [b EXCEPT !.strategy = up.strategy,
              !.risk_manager = rep.risk_manager,
              !.pc = "stopped",
              !.last = [NoTick EXCEPT !.i = Len(df) - 1, !.closed = up.closed,
                                      !.raised = "KeyboardInterrupt"]]

\* TradingBot.run_once: print_status, then check_and_execute_trades; every
\* Exception is caught and printed, and the bot goes on to the next poll.
run_once(b, df, current_price, current_time, wallDate) ==
    IF get_stats_raises(b.risk_manager)
    THEN [b EXCEPT !.last = [NoTick EXCEPT !.i = Len(df) - 1,
                                           !.raised = "ZeroDivisionError",
                                           !.halted_at_raise =
                                               b.risk_manager.trading_halted]]
    ELSE check_and_execute_trades(b, df, current_price, current_time, wallDate)

---------------------------------------------------------------------------
(* Bounds of the model.                                                    *)

MaxDay   == 2     \* calendar dates are 0 .. MaxDay
MaxCalls == 3     \* update_balance calls made on the stand-alone RiskManager

Dates  == 0 .. MaxDay
Hours  == {0, 1}
Stamps == {Stamp(d, h) : d \in Dates, h \in Hours}

\* t1 is not later than t2
StampLe(t1, t2) ==
    t1.date < t2.date \/ (t1.date = t2.date /\ t1.hour <= t2.hour)

\* t1 is earlier than t2
StampLt(t1, t2) == StampLe(t1, t2) /\ t1 # t2

---------------------------------------------------------------------------
(* Position-level specification: one Position, built as open_position     *)
(* builds it, receiving update_trailing_stop and should_exit calls with    *)
(* arbitrary prices.                                                        *)

PosEntries  == {10000, 10100}
PosStops    == {9800, 9900, 10000}
PosPrices   == {9700, 9900, 9999, 10000, 10100, 10200, 10300, 10400, 10500}
PosPercents == {Norm(1, 100), Norm(2, 100)}

NoCall == [op |-> "none"]

InitPositions ==
    {Position(R(es[1]), R(1), R(es[2]),
              RAdd(R(es[1]), RMul(RSub(R(es[1]), R(es[2])), RISK_REWARD_RATIO)),
              Stamp(0, 0)) :
        es \in {x \in PosEntries \X PosStops : x[2] < x[1]}}

PosTrail ==
    \E price \in PosPrices, pct \in PosPercents :
        /\ pos' = update_trailing_stop(pos, R(price), pct)
        /\ posOut' = [op |-> "update_trailing_stop", price |-> R(price),
                      pct |-> pct, before |-> pos]
        /\ UNCHANGED <<today, rmVars, drvVars>>

PosShouldExit ==
    \E price \in PosPrices :
        /\ posOut' = [op |-> "should_exit", price |-> R(price),
                      before |-> pos, ret |-> should_exit(pos, R(price))]
        /\ UNCHANGED <<today, pos, rmVars, drvVars>>

PosGetPnl ==
    \E price \in PosPrices :
        /\ posOut' = [op |-> "get_pnl", price |-> R(price),
                      before |-> pos, ret |-> get_pnl(pos, R(price))]
        /\ UNCHANGED <<today, pos, rmVars, drvVars>>

RmIdle == RiskManager(R(INITIAL_BALANCE), 0)

DrvIdle ==
    /\ mode = "none"
    /\ wick = Zero
    /\ data = <<>>
    /\ run = Driver(R(INITIAL_BALANCE), 0)
    /\ twin = None

InitPos ==
    /\ today = 0
    /\ pos \in InitPositions
    /\ posOut = NoCall
    /\ rm = RmIdle
    /\ rmLog = <<>>
    /\ DrvIdle

NextPos == PosTrail \/ PosShouldExit \/ PosGetPnl

SpecPos == InitPos /\ [][NextPos]_vars

---------------------------------------------------------------------------
(* RiskManager-level specification: one RiskManager receiving              *)
(* update_balance calls in time order, while the wall clock may pass       *)
(* midnight.  A timestamp is never in the future of the wall clock: it is  *)
(* datetime.now() in the live driver and a recorded candle time in a       *)
(* backtest.                                                               *)

RmPnls == {-10000, -300, -200, 100}

PosIdle == Position(R(1), R(1), R(0), R(3), Stamp(0, 0))

LastStamp == IF rmLog = <<>> THEN Stamp(0, 0) ELSE rmLog[Len(rmLog)].t

RmUpdateBalance ==
    \E pnl \in RmPnls, t \in Stamps :
        /\ Len(rmLog) < MaxCalls
        /\ StampLe(LastStamp, t)
        /\ DateOf(t) <= today
        /\ rm' = update_balance(rm, R(pnl), t, today)
        /\ rmLog' = Append(rmLog, [pnl |-> R(pnl), t |-> t,
                                   reset |-> NewDay(rm, t),
                                   before |-> rm,
                                   after |-> update_balance(rm, R(pnl), t, today)])
        /\ posOut' = NoCall
        /\ UNCHANGED <<today, pos, drvVars>>

\* a can_trade() call on the Risk Manager as it stands
RmCanTrade ==
    /\ rmLog # <<>>
    /\ posOut' = [op |-> "can_trade", before |-> rm, ret |-> can_trade(rm)]
    /\ UNCHANGED <<today, pos, rmVars, drvVars>>

Midnight ==
    /\ today < MaxDay
    /\ today' = today + 1
    /\ UNCHANGED <<posVars, rmVars, drvVars>>

InitRM ==
    /\ today \in Dates
    /\ rm = RiskManager(R(INITIAL_BALANCE), today)
    /\ rmLog = <<>>
    /\ pos = PosIdle
    /\ posOut = NoCall
    /\ DrvIdle

NextRM == RmUpdateBalance \/ RmCanTrade \/ Midnight

SpecRM == InitRM /\ [][NextRM]_vars

---------------------------------------------------------------------------
(* Driver-level specification: a Backtester run or a live TradingBot over  *)
(* a candle sequence.  run() reads row i only in iteration i and the EMA of *)
(* row i depends on rows 0 .. i only, so the candle sequence is revealed    *)
(* one candle per tick: `data` is the prefix read so far and BtFinish is    *)
(* the end of the sequence.  Candles are valid: prices are positive,        *)
(* low <= close, timestamps strictly increase (CandlesPerDay candles to a   *)
(* calendar date), and no candle is dated after the wall clock.             *)

MaxCandles    == 7
CandlesPerDay == 4

Closes     == {1, 100, 101, 102, 103}
WarmCloses == {100, 101}
Wicks      == {Zero, R(1)}

\* the closes candle number k (1-based) may take: its low must be positive
ClosesAt(k) ==
    {c \in IF k <= EMA_LONG THEN WarmCloses ELSE Closes :
        RLt(Zero, RSub(R(c), wick))}

CandleStamp(k) == Stamp((k - 1) \div CandlesPerDay, (k - 1) % CandlesPerDay)

NextCandle(close) ==
    Candle(CandleStamp(Len(data) + 1), R(close), RSub(R(close), wick))

\* one iteration of the for loop of Backtester.run
BtTick ==
    \E close \in ClosesAt(Len(data) + 1) :
        /\ mode = "backtest"
        /\ run.pc = "loop"
        /\ Len(data) < MaxCandles
        /\ DateOf(CandleStamp(Len(data) + 1)) <= today
        /\ data' = add_emas(data, NextCandle(close), EMA_SHORT, EMA_LONG)
        /\ run' = backtest_tick(run, data',
                                Len(data), today)
        /\ UNCHANGED <<today, posVars, rmVars, mode, wick, twin>>

\* the for loop of Backtester.run is exhausted: closing loop and metrics
BtFinish ==
    /\ mode = "backtest"
    /\ run.pc = "loop"
    /\ run' = backtest_finish(run, data, today)
    /\ UNCHANGED <<today, posVars, rmVars, mode, wick, data, twin>>

\* one poll of TradingBot.run_live: the fetched history has one more candle,
\* the current price is its close and the current time is datetime.now().
LiveTick ==
    \E close \in ClosesAt(Len(data) + 1) :
        /\ mode = "live"
        /\ run.pc = "loop"
        /\ Len(data) < MaxCandles
        /\ data' = add_emas(data, NextCandle(close), EMA_SHORT, EMA_LONG)
        /\ run' = run_once(run, data', R(close),
                           Stamp(today, Len(data)), today)
        /\ UNCHANGED <<today, posVars, rmVars, mode, wick, twin>>

\* one poll of TradingBot.run_live during which Ctrl+C is pressed inside the
\* report loop of check_and_execute_trades: update_positions has returned
\* and j of the positions it closed, not all, have been reported to the
\* Risk Manager
LiveCancel ==
    \E close \in ClosesAt(Len(data) + 1) :
        /\ mode = "live"
        /\ run.pc = "loop"
        /\ Len(data) < MaxCandles
        /\ ~get_stats_raises(run.risk_manager)
        /\ data' = add_emas(data, NextCandle(close), EMA_SHORT, EMA_LONG)
        /\ \E up \in {update_positions(run.strategy, R(close),
                                        Stamp(today, Len(data)))} :
              /\ up.raised = ""
              /\ \E j \in 0 .. Len(up.closed) - 1 :
                    \E rep \in {report_closed(
                                   [risk_manager |->
                                        [run.risk_manager EXCEPT !.raised = ""],
                                    trades_log |-> run.trades_log,
                                    halted_at_raise |-> FALSE],
                                   SubSeq(up.closed, 1, j), 1,
                                   Stamp(today, Len(data)), today, FALSE)} :
                       /\ rep.risk_manager.raised = ""
                       /\ run' = live_tick_interrupted(run, data', up, rep)
        /\ UNCHANGED <<today, posVars, rmVars, mode, wick, twin>>

\* the wall clock passes midnight
DrvMidnight ==
    /\ today < MaxDay
    /\ today' = today + 1
    /\ UNCHANGED <<posVars, rmVars, drvVars>>

Init ==
    /\ today \in Dates
    /\ mode \in {"backtest", "live"}
    /\ wick \in Wicks
    /\ data = <<>>
    /\ run = Driver(R(INITIAL_BALANCE), today)
    /\ twin = None
    /\ pos = PosIdle
    /\ posOut = NoCall
    /\ rm = RmIdle
    /\ rmLog = <<>>

Next == BtTick \/ BtFinish \/ LiveTick \/ LiveCancel \/ DrvMidnight

Spec == Init /\ [][Next]_vars

---------------------------------------------------------------------------
(* Strategy-level specification: one TradingStrategy receiving             *)
(* open_position and update_positions calls in any order, with arbitrary   *)
(* prices and account balances, over a fixed history of one, two or three  *)
(* rows.                                                                   *)

MaxOpens == 4     \* positions a stand-alone strategy is asked to create

StratPrices   == {0, 98, 100, 104}
StratTicks    == {98, 100, 101, 104}     \* prices of update_positions calls
StratBalances == {-100, 0, 10000}

StratData ==
    add_emas(add_emas(<<>>, Candle(Stamp(0, 0), R(100), R(99)),
                      EMA_SHORT, EMA_LONG),
             Candle(Stamp(0, 1), R(100), R(99)), EMA_SHORT, EMA_LONG)

\* A history shorter than the swing lookback, whose low is its close.
StratShort ==
    add_emas(<<>>, Candle(Stamp(0, 1), R(100), R(100)), EMA_SHORT, EMA_LONG)

\* A history longer than the swing lookback, whose lowest low lies before
\* the lookback window.
StratLong ==
    add_emas(add_emas(add_emas(<<>>, Candle(Stamp(0, 0), R(100), R(97)),
                               EMA_SHORT, EMA_LONG),
                      Candle(Stamp(0, 0), R(100), R(99)), EMA_SHORT, EMA_LONG),
             Candle(Stamp(0, 1), R(100), R(100)), EMA_SHORT, EMA_LONG)

StratHistories == {StratData, StratShort, StratLong}

StratOpen ==
    \E price \in StratPrices, bal \in StratBalances :
        /\ mode = "strategy"
        /\ run.opened < MaxOpens
        /\ bal > 0 \/ price = 100     \* a balance <= 0 is tried at one price
        /\ posOut' = [op |-> "open_position", price |-> R(price),
                      balance |-> R(bal), before |-> run.strategy,
                      ret |-> open_position(run.strategy, R(price), R(bal),
                                            RISK_PER_TRADE, data,
                                            Stamp(0, 1)).position]
        /\ run' = [run EXCEPT
                     !.strategy = open_position(run.strategy, R(price), R(bal),
                                                RISK_PER_TRADE, data,
                                                Stamp(0, 1)).strategy,
                     !.opened = IF posOut'.ret # None THEN @ + 1 ELSE @]
        /\ UNCHANGED <<today, pos, rmVars, mode, wick, data, twin>>

StratUpdate ==
    \E price \in StratTicks :
        /\ mode = "strategy"
        /\ run.strategy.positions # <<>>
        /\ posOut' = [op |-> "update_positions", price |-> R(price),
                      before |-> run.strategy,
                      ret |-> update_positions(run.strategy, R(price),
                                               Stamp(0, 1)).closed]
        /\ run' = [run EXCEPT
                     !.strategy = update_positions(run.strategy, R(price),
                                                   Stamp(0, 1)).strategy]
        /\ UNCHANGED <<today, pos, rmVars, mode, wick, data, twin>>

InitStrat ==
    /\ today = 0
    /\ mode = "strategy"
    /\ wick = R(1)
    /\ data \in StratHistories
    /\ run = Driver(R(INITIAL_BALANCE), 0)
    /\ twin = None
    /\ pos = PosIdle
    /\ posOut = NoCall
    /\ rm = RmIdle
    /\ rmLog = <<>>

NextStrat == StratOpen \/ StratUpdate

SpecStrat == InitStrat /\ [][NextStrat]_vars

---------------------------------------------------------------------------
(* Twin specification: two fresh Backtesters, with the same configuration, *)
(* run over the same candle sequence, each under its own wall-clock date   *)
(* (`today` for run, twin.today for twin.run).  They read the candles in   *)
(* lockstep; a run that has left its loop by an exception reads no more.   *)

TwinStep(b, df, i, wallDate) ==
    IF b.pc = "loop" THEN backtest_tick(b, df, i, wallDate) ELSE b

TwinEnd(b, df, wallDate) ==
    IF b.pc = "loop" THEN backtest_finish(b, df, wallDate) ELSE b

TwinTick ==
    \E close \in ClosesAt(Len(data) + 1) :
        /\ mode = "twin"
        /\ run.pc = "loop" \/ twin.run.pc = "loop"
        /\ Len(data) < MaxCandles
        /\ DateOf(CandleStamp(Len(data) + 1)) <= today
        /\ DateOf(CandleStamp(Len(data) + 1)) <= twin.today
        /\ data' = add_emas(data, NextCandle(close), EMA_SHORT, EMA_LONG)
        /\ run' = TwinStep(run, data', Len(data), today)
        /\ twin' = [twin EXCEPT !.run = TwinStep(@, data', Len(data), twin.today)]
        /\ UNCHANGED <<today, posVars, rmVars, mode, wick>>

TwinFinish ==
    /\ mode = "twin"
    /\ run.pc = "loop" \/ twin.run.pc = "loop"
    /\ run' = TwinEnd(run, data, today)
    /\ twin' = [twin EXCEPT !.run = TwinEnd(@, data, twin.today)]
    /\ UNCHANGED <<today, posVars, rmVars, mode, wick, data>>

InitTwin ==
    /\ today \in Dates
    /\ mode = "twin"
    /\ wick \in Wicks
    /\ data = <<>>
    /\ run = Driver(R(INITIAL_BALANCE), today)
    /\ twin \in {[today |-> d, run |-> Driver(R(INITIAL_BALANCE), d)] : d \in Dates}
    /\ pos = PosIdle
    /\ posOut = NoCall
    /\ rm = RmIdle
    /\ rmLog = <<>>

NextTwin == TwinTick \/ TwinFinish

SpecTwin == InitTwin /\ [][NextTwin]_vars

---------------------------------------------------------------------------
(* Rising-market specification: a Backtester run over a candle sequence    *)
(* whose closes strictly increase, gently (one or two units a candle) or   *)
(* steeply (110, 125), every low being the close less the wick.            *)

MaxRise == 6     \* candles of a rising sequence

RiseCloses == {100, 101, 102, 103, 104, 105, 106, 110, 125}

\* the closes that may follow the sequence read so far
RisingCloses ==
    {c \in RiseCloses : data = <<>> \/ RLt(data[Len(data)].close, R(c))}

\* one iteration of the for loop of Backtester.run
RiseTick ==
    \E close \in RisingCloses :
        /\ mode = "rise"
        /\ run.pc = "loop"
        /\ Len(data) < MaxRise
        /\ DateOf(CandleStamp(Len(data) + 1)) <= today
        /\ data' = add_emas(data, NextCandle(close), EMA_SHORT, EMA_LONG)
        /\ run' = backtest_tick(run, data', Len(data), today)
        /\ UNCHANGED <<today, posVars, rmVars, mode, wick, twin>>

\* the for loop of Backtester.run is exhausted: closing loop and metrics
RiseFinish ==
    /\ mode = "rise"
    /\ run.pc = "loop"
    /\ run' = backtest_finish(run, data, today)
    /\ UNCHANGED <<today, posVars, rmVars, mode, wick, data, twin>>

InitRise ==
    /\ today \in Dates
    /\ mode = "rise"
    /\ wick \in Wicks
    /\ data = <<>>
    /\ run = Driver(R(INITIAL_BALANCE), today)
    /\ twin = None
    /\ pos = PosIdle
    /\ posOut = NoCall
    /\ rm = RmIdle
    /\ rmLog = <<>>

NextRise == RiseTick \/ RiseFinish

SpecRise == InitRise /\ [][NextRise]_vars

---------------------------------------------------------------------------
(* Signal specification: a history grows one candle at a time (low =       *)
(* close, EMA columns from add_emas) and check_entry_signal is asked about *)
(* every prefix, the ones shorter than EMA_LONG included.                  *)

MaxSignalCandles == 4     \* candles of a signal history

\* 96, 105, 99 ends on the lower tolerance boundary in an uptrend and
\* 98, 98, 101 on the upper one; a constant history has equal EMAs.
SigCloses == {96, 98, 99, 101, 105}

SigCheck ==
    \E close \in SigCloses :
        /\ mode = "signal"
        /\ Len(data) < MaxSignalCandles
        /\ data' = add_emas(data, Candle(Stamp(0, Len(data)), R(close), R(close)),
                            EMA_SHORT, EMA_LONG)
        /\ posOut' = [op |-> "check_entry_signal", before |-> run.strategy,
                      ret |-> check_entry_signal(data')]
        /\ UNCHANGED <<today, pos, rmVars, mode, wick, run, twin>>

InitSignal ==
    /\ today = 0
    /\ mode = "signal"
    /\ wick = Zero
    /\ data = <<>>
    /\ run = Driver(R(INITIAL_BALANCE), 0)
    /\ twin = None
    /\ pos = PosIdle
    /\ posOut = NoCall
    /\ rm = RmIdle
    /\ rmLog = <<>>

NextSignal == SigCheck

SpecSignal == InitSignal /\ [][NextSignal]_vars

---------------------------------------------------------------------------
(* Claims.                                                                 *)

\* C1: over any sequence of update_trailing_stop calls with arbitrary
\* prices, stop_loss after a call is >= stop_loss before it.
C1_StopNeverDecreases == [][RLe(pos.stop_loss, pos'.stop_loss)]_vars

\* C1 witness: a trailing update arrived, with the position in profit, at a
\* price below the high-water mark, whose own trailing level lies strictly
\* below the stop already reached; the stop stayed.
C1_Witness ==
    /\ posOut.op = "update_trailing_stop"
    /\ posOut.before.trailing_stop_active
    /\ RLt(posOut.before.entry_price, posOut.price)
    /\ RLt(RMul(posOut.price, RSub(R(1), posOut.pct)), posOut.before.stop_loss)
    /\ pos.stop_loss = posOut.before.stop_loss

\* C2: two consecutive update_balance calls whose timestamps fall on the
\* same calendar date never reset between them: the second call does not
\* reset, keeps daily_start_balance and adds its pnl to daily_pnl.
C2_ResetOncePerRollover ==
    \A k \in 2 .. Len(rmLog) :
        (DateOf(rmLog[k].t) = DateOf(rmLog[k - 1].t) /\ rmLog[k].after.raised = "")
        => /\ ~rmLog[k].reset
           /\ rmLog[k].after.daily_start_balance
                  = rmLog[k - 1].after.daily_start_balance
           /\ rmLog[k].after.daily_pnl
                  = RAdd(rmLog[k - 1].after.daily_pnl, rmLog[k].pnl)

\* C3: once an update_balance call has set trading_halted, can_trade()
\* stays false after every later update_balance call whose timestamp is on
\* the calendar date of the halting call.
C3_HaltPersistsSameDate ==
    \A j \in 1 .. Len(rmLog) : \A k \in j .. Len(rmLog) :
        (/\ rmLog[j].after.trading_halted
         /\ \A m \in j .. k : DateOf(rmLog[m].t) = DateOf(rmLog[j].t))
        => ~can_trade(rmLog[k].after)[1]

\* daily_pnl / daily_start_balance <= -MAX_DAILY_LOSS, where it is defined
LossLimitReached(r) ==
    /\ r.daily_start_balance # Zero
    /\ RLe(RDiv(r.daily_pnl, r.daily_start_balance), RNeg(MAX_DAILY_LOSS))

\* C4: after every update_balance call that returns, if daily_pnl /
\* daily_start_balance <= -MAX_DAILY_LOSS then trading_halted is true and
\* can_trade() is (false, a reason starting 'Daily loss limit'); the bound is
\* inclusive: from balance 10000 a first update_balance(-300, t) leaves
\* current_balance 9700 and trading halted.
C4_DailyLossHalts ==
    /\ (rm.raised = "" /\ LossLimitReached(rm))
       => /\ rm.trading_halted
          /\ ~can_trade(rm)[1]
          /\ can_trade(rm)[2][1] = "Daily loss limit reached: "
    /\ (rmLog # <<>> /\ rmLog[1].pnl = R(-300))
       => /\ rmLog[1].after.current_balance = R(9700)
          /\ rmLog[1].after.trading_halted
          /\ ~can_trade(rmLog[1].after)[1]

\* C4 witness: a first update_balance(-300, t) on a fresh 10000 account, the
\* loss exactly at the 3% limit, has halted trading.
C4_Witness ==
    /\ Len(rmLog) = 1
    /\ rmLog[1].pnl = R(-300)
    /\ rmLog[1].before.current_balance = R(INITIAL_BALANCE)
    /\ RDiv(rm.daily_pnl, rm.daily_start_balance) = RNeg(MAX_DAILY_LOSS)
    /\ rm.trading_halted


\* C5: in every reachable state of a TradingStrategy, under any sequence of
\* open_position and update_positions calls, the number of open positions
\* is <= MAX_POSITIONS, and an open_position call made with MAX_POSITIONS
\* positions open returns None and opens nothing.
C5_PositionLimit ==
    /\ Len(run.strategy.positions) <= MAX_POSITIONS
    /\ (posOut.op = "open_position"
        /\ Len(posOut.before.positions) = MAX_POSITIONS)
       => /\ posOut.ret = None
          /\ run.strategy.positions = posOut.before.positions

\* C5 witness: open_position was called with a positive balance while
\* MAX_POSITIONS positions were open, and declined.
C5_Witness ==
    /\ posOut.op = "open_position"
    /\ Len(posOut.before.positions) = MAX_POSITIONS
    /\ RLt(Zero, posOut.balance)
    /\ posOut.ret = None
    /\ Len(run.strategy.positions) = MAX_POSITIONS

\* The entry gate of both drivers: a tick opened a position only if
\* can_trade() returned true in it (trading not halted, balance > 0), and
\* in the Backtester only at a tick index i >= EMA_LONG.
EntriesGated ==
    run.last.opened # None
    => /\ run.last.gate
       /\ ~run.risk_manager.trading_halted
       /\ RLt(Zero, run.risk_manager.current_balance)
       /\ (mode = "backtest" => run.last.i >= EMA_LONG)

C8_RunsAgree ==
    (mode = "twin" /\ run.pc = "done" /\ twin.run.pc = "done")
    => /\ run.metrics = twin.run.metrics
       /\ run.trades_log = twin.run.trades_log

\* The metrics of an empty trade log
EmptyLogMetrics ==
    [total_trades  |-> 0,
     win_rate      |-> Zero,
     profit_factor |-> Zero,
     max_drawdown  |-> Zero,
     final_balance |-> R(INITIAL_BALANCE),
     total_return  |-> Zero,
     avg_win       |-> Zero,
     avg_loss      |-> Zero]

\* C9: Backtester.run() on an empty candle sequence raises nothing and
\* returns the empty-log metrics, having performed no tick.
C9_EmptyRunReturnsEmptyMetrics ==
    (mode = "backtest" /\ data = <<>> /\ run.pc # "loop")
    => /\ run.pc = "done"
       /\ run.raised = ""
       /\ run.equity_curve = <<>>
       /\ run.metrics = EmptyLogMetrics

SameTickContract(b, df, wallDate) ==
    /\ backtest_tick(b, df, Len(df) - 1, wallDate).strategy
           = check_and_execute_trades(b, df, df[Len(df)].close,
                                      df[Len(df)].timestamp, wallDate).strategy
    /\ backtest_tick(b, df, Len(df) - 1, wallDate).risk_manager
           = check_and_execute_trades(b, df, df[Len(df)].close,
                                      df[Len(df)].timestamp, wallDate).risk_manager

\* C12: given the same history, current price and current time, one call of
\* check_and_execute_trades changes the open positions, the closed log and
\* the Risk Manager exactly as one Backtester tick does, from every state a
\* backtest reaches and for every next candle.
C12_LiveTickMatchesBacktestTick ==
    (mode = "backtest" /\ run.pc = "loop" /\ Len(data) < MaxCandles)
    => \A close \in ClosesAt(Len(data) + 1) :
           SameTickContract(run,
                            add_emas(data, NextCandle(close), EMA_SHORT, EMA_LONG),
                            today)


\* C13: should_exit(p) returns (true, 'Stop Loss') whenever p <= stop_loss,
\* even if p >= take_profit also holds; otherwise (true, 'Take Profit') when
\* p >= take_profit; otherwise (false, ''); both comparisons are inclusive
\* and the call changes nothing of the position.
C13_ShouldExitContract ==
    posOut.op = "should_exit"
    => /\ pos = posOut.before
       /\ RLe(posOut.price, posOut.before.stop_loss)
          => posOut.ret = <<TRUE, "Stop Loss">>
       /\ (RLt(posOut.before.stop_loss, posOut.price)
           /\ RLe(posOut.before.take_profit, posOut.price))
          => posOut.ret = <<TRUE, "Take Profit">>
       /\ (RLt(posOut.before.stop_loss, posOut.price)
           /\ RLt(posOut.price, posOut.before.take_profit))
          => posOut.ret = <<FALSE, "">>

\* C13 witness: should_exit was called at a price that is at or below a
\* (trailed) stop and at or above the take profit, and answered Stop Loss.
C13_Witness ==
    /\ posOut.op = "should_exit"
    /\ RLe(posOut.price, posOut.before.stop_loss)
    /\ RLe(posOut.before.take_profit, posOut.price)
    /\ posOut.ret = <<TRUE, "Stop Loss">>


\* The stop of position p is strictly raised by the trailing update of a
\* tick at current_price.
StopRaisedAt(p, current_price) ==
    RLt(p.stop_loss,
        update_trailing_stop(p, current_price, TRAILING_STOP_PERCENT).stop_loss)

\* Position q is among the open positions of strategy s.
HeldOpen(s, q) == \E j \in 1 .. Len(s.positions) : s.positions[j] = q

MaxTrail == 3     \* ticks a position is followed over

\* A strategy holding the one position p.
Holding(p) == [positions |-> <<p>>, closed_positions |-> <<>>]

\* The positions strategy s holds now or can come to hold: its open
\* positions and those open_position creates on the history df, carried
\* through at most n calls of update_positions that left them open.
RECURSIVE HeldPositions(_, _, _)
HeldPositions(n, s, df) ==
    IF n = 0
    THEN { s.positions[j] : j \in 1 .. Len(s.positions) } \cup
         ({ open_position(TradingStrategy, R(price), R(bal), RISK_PER_TRADE,
                          df, Stamp(0, 1)).position :
              price \in StratPrices, bal \in StratBalances } \ {None})
    ELSE HeldPositions(n - 1, s, df) \cup
         UNION { { update_positions(Holding(p), R(price),
                                    Stamp(0, 1)).strategy.positions[j] :
                     j \in 1 .. Len(update_positions(Holding(p), R(price),
                                        Stamp(0, 1)).strategy.positions) } :
                   p \in HeldPositions(n - 1, s, df), price \in StratPrices }

\* C14 as stated: in update_positions a trailing stop can trigger an exit on
\* the tick it is raised: for some position the strategy holds or can come
\* to hold and some price, the tick's update_trailing_stop strictly raises
\* the stop and the should_exit that follows closes the position with
\* reason 'Stop Loss'.
C14_SameTickTrailingExit ==
    \E p \in HeldPositions(MaxTrail, run.strategy, data), price \in StratPrices :
        /\ StopRaisedAt(p, R(price))
        /\ \E r \in { update_positions(Holding(p), R(price),
                                       Stamp(0, 1)).closed[j] :
                        j \in 1 .. Len(update_positions(Holding(p), R(price),
                                           Stamp(0, 1)).closed) } :
              r.exit_reason = "Stop Loss"

\* C14, amended: update_positions runs update_trailing_stop before
\* should_exit, so should_exit tests the stop as updated in that tick; a
\* position whose stop that update strictly raised is never closed with
\* 'Stop Loss' in that tick: it stays open with the raised stop (which can
\* close it from the next tick on), or the price has reached its take
\* profit and it is closed with 'Take Profit'.
C14_RaisedStopNeverExitsSameTick ==
    posOut.op = "update_positions"
    => \A k \in 1 .. Len(posOut.before.positions) :
           StopRaisedAt(posOut.before.positions[k], posOut.price)
           => \/ HeldOpen(run.strategy,
                          update_trailing_stop(posOut.before.positions[k],
                                               posOut.price,
                                               TRAILING_STOP_PERCENT))
              \/ /\ RLe(posOut.before.positions[k].take_profit, posOut.price)
                 /\ \E j \in 1 .. Len(posOut.ret) :
                       posOut.ret[j]
                         = ClosedRecord(posOut.before.positions[k],
                                        posOut.price, Stamp(0, 1),
                                        "Take Profit")

\* C14 witness: a tick strictly raised the stop of a position and the
\* should_exit that followed left it open with the raised stop.
C14_Witness ==
    /\ posOut.op = "update_positions"
    /\ \E k \in 1 .. Len(posOut.before.positions) :
          /\ StopRaisedAt(posOut.before.positions[k], posOut.price)
          /\ HeldOpen(run.strategy,
                      update_trailing_stop(posOut.before.positions[k],
                                           posOut.price,
                                           TRAILING_STOP_PERCENT))


\* C15: update_trailing_stop(price, pct) leaves every attribute unchanged
\* when price <= entry_price; when price > entry_price it sets
\* trailing_stop_active, highest_price = max(highest_price, price) and
\* stop_loss = max(stop_loss, highest_price * (1 - pct)) with the updated
\* highest_price; entry_price, quantity, take_profit and entry_time are
\* never changed.
C15_TrailingStopEffect ==
    posOut.op = "update_trailing_stop"
    => /\ RLe(posOut.price, posOut.before.entry_price) => pos = posOut.before
       /\ RLt(posOut.before.entry_price, posOut.price)
          => /\ pos.trailing_stop_active = TRUE
             /\ pos.highest_price = RMax(posOut.before.highest_price, posOut.price)
             /\ pos.stop_loss
                  = RMax(posOut.before.stop_loss,
                         RMul(pos.highest_price, RSub(R(1), posOut.pct)))
       /\ pos.entry_price = posOut.before.entry_price
       /\ pos.quantity = posOut.before.quantity
       /\ pos.take_profit = posOut.before.take_profit
       /\ pos.entry_time = posOut.before.entry_time

\* C15 witness: a call at a new high moved the high-water mark and raised
\* the stop to a level the old high-water mark would not have given.
C15_Witness ==
    /\ posOut.op = "update_trailing_stop"
    /\ RLt(posOut.before.highest_price, posOut.price)
    /\ RLt(posOut.before.entry_price, posOut.before.highest_price)
    /\ pos.highest_price = posOut.price
    /\ RLt(posOut.before.stop_loss, pos.stop_loss)
    /\ RLt(RMul(posOut.before.highest_price, RSub(R(1), posOut.pct)),
           pos.stop_loss)


\* C16: within each Backtester tick all closures of the tick are applied to
\* the Risk Manager before the entry decision: the can_trade() gate and the
\* balance that sizes an entry at tick i include tick i's closed pnl; a
\* position opened at tick i is not trailing-updated or exit-tested at tick
\* i (the tick examines exactly the positions open before it, and the new
\* position ends the tick as constructed), its first exit test is at tick
\* i + 1.
C16_ClosuresBeforeEntry ==
    [][(mode = "backtest" /\ Len(data') = Len(data) + 1 /\ run'.pc = "loop")
       => /\ run'.risk_manager.current_balance
               = RAdd(run.risk_manager.current_balance,
                      SumPnl(run'.last.closed, Len(run'.last.closed)))
          /\ run'.last.gate = can_trade(run'.risk_manager)[1]
          /\ Len(run'.last.closed) + Len(run'.strategy.positions)
               = Len(run.strategy.positions)
                 + (IF run'.last.opened # None THEN 1 ELSE 0)
          /\ run'.last.opened # None
             => /\ run'.last.gate
                /\ run'.strategy.positions[Len(run'.strategy.positions)]
                     = run'.last.opened
                /\ run'.last.opened.entry_price = data'[Len(data')].close
                /\ run'.last.opened.highest_price = run'.last.opened.entry_price
                /\ ~run'.last.opened.trailing_stop_active
                /\ run'.last.opened.quantity
                     = calculate_position_size(
                           run'.last.opened.entry_price,
                           run'.last.opened.stop_loss,
                           run'.risk_manager.current_balance,
                           RISK_PER_TRADE)]_vars

\* C16 witness: a Backtester tick closed a position with a non-zero pnl and
\* opened another one.
C16_Witness ==
    /\ mode = "backtest"
    /\ run.pc = "loop"
    /\ run.last.opened # None
    /\ run.last.closed # <<>>
    /\ SumPnl(run.last.closed, Len(run.last.closed)) # Zero


\* C17: after Backtester.run() over N candles the equity curve has exactly N
\* entries and entry i is the Risk Manager's current_balance at the end of
\* tick i, after that tick's closures, whether or not a trade occurred in
\* the tick: every tick appends the balance it ends with, nothing else
\* touches the curve, and a run that returned has one entry per candle.
C17_EquityCurvePerTick ==
    [][mode = "backtest"
       => /\ (Len(data') = Len(data) + 1 /\ run'.pc = "loop")
             => run'.equity_curve
                  = Append(run.equity_curve, run'.risk_manager.current_balance)
          /\ Len(data') = Len(data)
             => run'.equity_curve = run.equity_curve
          /\ run'.pc = "done"
             => Len(run'.equity_curve) = Len(data')]_vars

\* C17 witness: a run returned whose equity curve has one entry per candle,
\* with a tick that changed the balance and a later tick that did not.
C17_Witness ==
    /\ mode = "backtest"
    /\ run.pc = "done"
    /\ Len(run.equity_curve) = Len(data)
    /\ \E k \in 2 .. Len(data) - 1 :
          /\ run.equity_curve[k] # run.equity_curve[k - 1]
          /\ run.equity_curve[k + 1] = run.equity_curve[k]


\* The step that takes Backtester.run() out of its for loop over a
\* non-empty history.
RunEnds ==
    /\ mode = "backtest"
    /\ run.pc = "loop"
    /\ run'.pc # "loop"
    /\ data' = data
    /\ data # <<>>

\* C18: at the end of Backtester.run() each position still open is closed
\* at the last candle's close with exit_reason 'Backtest End', in the
\* positions' open order: its pnl = (last close - entry_price) * quantity is
\* applied to the Risk Manager through update_balance and its record is
\* appended to trades_log; 'Backtest End' appears on no other record.
C18_BacktestEndClosures ==
    [][/\ RunEnds
          => /\ run'.pc = "done"
             /\ Len(run'.trades_log)
                  = Len(run.trades_log) + Len(run.strategy.positions)
             /\ SubSeq(run'.trades_log, 1, Len(run.trades_log)) = run.trades_log
             /\ \A k \in 1 .. Len(run.strategy.positions) :
                   LET p   == run.strategy.positions[k]
                       rec == run'.trades_log[Len(run.trades_log) + k]
                   IN  /\ rec.exit_reason = "Backtest End"
                       /\ rec.exit_price = data[Len(data)].close
                       /\ rec.exit_time = data[Len(data)].timestamp
                       /\ rec.entry_price = p.entry_price
                       /\ rec.entry_time = p.entry_time
                       /\ rec.quantity = p.quantity
                       /\ rec.pnl = RMul(RSub(data[Len(data)].close,
                                              p.entry_price), p.quantity)
             /\ run'.risk_manager.current_balance
                  = RAdd(run.risk_manager.current_balance,
                         RSub(SumPnl(run'.trades_log, Len(run'.trades_log)),
                              SumPnl(run.trades_log, Len(run.trades_log))))
             /\ run'.strategy.positions = <<>>
       /\ (mode = "backtest" /\ run'.pc = "loop")
          => /\ \A k \in 1 .. Len(run'.trades_log) :
                   run'.trades_log[k].exit_reason # "Backtest End"
             /\ \A k \in 1 .. Len(run'.strategy.closed_positions) :
                   run'.strategy.closed_positions[k].exit_reason
                     # "Backtest End"]_vars


\* C18 witness: a run returned after closing two positions opened at
\* different prices with 'Backtest End', in their open order, at a price
\* away from both entries, after an earlier closure of another kind.
C18_Witness ==
    /\ mode = "backtest"
    /\ run.pc = "done"
    /\ Len(run.trades_log) >= 3
    /\ LET n == Len(run.trades_log)
       IN  /\ run.trades_log[n].exit_reason = "Backtest End"
           /\ run.trades_log[n - 1].exit_reason = "Backtest End"
           /\ run.trades_log[n - 2].exit_reason # "Backtest End"
           /\ StampLt(run.trades_log[n - 1].entry_time,
                      run.trades_log[n].entry_time)
           /\ run.trades_log[n].pnl # Zero
           /\ run.trades_log[n - 1].pnl # Zero
           /\ run.trades_log[n].exit_price = data[Len(data)].close


\* The positions of strategy s after the trailing update of a tick at
\* current_price, in list order.
Trailed(s, current_price) ==
    [k \in 1 .. Len(s.positions) |->
        update_trailing_stop(s.positions[k], current_price,
                             TRAILING_STOP_PERCENT)]

\* The exit test is true of position q at current_price.
Exits(q, current_price) ==
    RLe(current_price, q.stop_loss) \/ RLe(q.take_profit, current_price)

\* C19: update_positions(price, time) partitions the open positions: each
\* position whose exit test is true yields one record (exit_price = price,
\* pnl = (price - entry_price) * quantity, exit_time = time) appended to
\* closed_positions and returned, in insertion order; the positions that
\* remain open keep their relative order; closed_positions only grows by
\* appending.
C19_UpdatePositionsPartitions ==
    /\ posOut.op = "update_positions"
       => LET all  == Trailed(posOut.before, posOut.price)
              out  == SelectSeq(all, LAMBDA q : Exits(q, posOut.price))
              stay == SelectSeq(all, LAMBDA q : ~Exits(q, posOut.price))
          IN  /\ run.strategy.positions = stay
              /\ Len(posOut.ret) = Len(out)
              /\ \A k \in 1 .. Len(out) :
                    /\ posOut.ret[k].entry_price = out[k].entry_price
                    /\ posOut.ret[k].entry_time = out[k].entry_time
                    /\ posOut.ret[k].quantity = out[k].quantity
                    /\ posOut.ret[k].exit_price = posOut.price
                    /\ posOut.ret[k].exit_time = Stamp(0, 1)
                    /\ posOut.ret[k].pnl
                         = RMul(RSub(posOut.price, out[k].entry_price),
                                out[k].quantity)
              /\ run.strategy.closed_positions
                   = posOut.before.closed_positions \o posOut.ret
    /\ posOut.op = "open_position"
       => run.strategy.closed_positions = posOut.before.closed_positions

\* C19 witness: a tick over three open positions closed the first and the
\* third, which differ, and kept the second, with records already in the
\* closed log.
C19_Witness ==
    /\ posOut.op = "update_positions"
    /\ Len(posOut.before.positions) = 3
    /\ Len(posOut.ret) = 2
    /\ Len(run.strategy.positions) = 1
    /\ posOut.before.closed_positions # <<>>
    /\ posOut.ret[1].entry_price = posOut.before.positions[1].entry_price
    /\ posOut.ret[2].entry_price = posOut.before.positions[3].entry_price
    /\ posOut.ret[1].entry_price # posOut.ret[2].entry_price
    /\ run.strategy.positions[1].entry_price
         = posOut.before.positions[2].entry_price
    /\ run.strategy.positions[1].entry_price # posOut.ret[1].entry_price
    /\ run.strategy.positions[1].entry_price # posOut.ret[2].entry_price


\* The lowest low of the last min(lookback, Len(df)) candles of df.
LowestRecentLow(df, lookback) ==
    LET n    == IF lookback < Len(df) THEN lookback ELSE Len(df)
        lows == { df[k].low : k \in Len(df) - n + 1 .. Len(df) }
    IN  CHOOSE x \in lows : \A y \in lows : RLe(x, y)

\* C20: every position open_position creates has stop_loss = the minimum
\* low over the last min(lookback, len(history)) candles if that is below
\* the entry price, otherwise entry_price * 0.98, and take_profit =
\* entry_price + (entry_price - stop_loss) * RISK_REWARD_RATIO; hence
\* stop_loss < entry_price < take_profit.
C20_EntryTerms ==
    (posOut.op = "open_position" /\ posOut.ret # None)
    => LET low == LowestRecentLow(data, SWING_LOOKBACK)
       IN  /\ posOut.ret.entry_price = posOut.price
           /\ posOut.ret.stop_loss
                = IF RLt(low, posOut.price) THEN low
                  ELSE RMul(posOut.price, Norm(98, 100))
           /\ posOut.ret.take_profit
                = RAdd(posOut.price,
                       RMul(RSub(posOut.price, posOut.ret.stop_loss),
                            RISK_REWARD_RATIO))
           /\ RLt(posOut.ret.stop_loss, posOut.ret.entry_price)
           /\ RLt(posOut.ret.entry_price, posOut.ret.take_profit)
           /\ run.strategy.positions[Len(run.strategy.positions)] = posOut.ret

\* C20 witness: a position was created at a price equal to the swing low,
\* with the 2% fallback stop.
C20_Witness ==
    /\ posOut.op = "open_position"
    /\ posOut.ret # None
    /\ LowestRecentLow(data, SWING_LOOKBACK) = posOut.price
    /\ posOut.ret.stop_loss = RMul(posOut.price, Norm(98, 100))


\* C21: every position open_position creates has quantity > 0 and
\* quantity * (entry_price - stop_loss) = account_balance * risk_percent:
\* closed exactly at its initial stop it loses the risk budget taken from
\* the balance at entry.
C21_RiskBudget ==
    (posOut.op = "open_position" /\ posOut.ret # None)
    => /\ RLt(Zero, posOut.ret.quantity)
       /\ RMul(posOut.ret.quantity,
               RSub(posOut.ret.entry_price, posOut.ret.stop_loss))
            = RMul(posOut.balance, RISK_PER_TRADE)
       /\ get_pnl(posOut.ret, posOut.ret.stop_loss)
            = RSub(Zero, RMul(posOut.balance, RISK_PER_TRADE))

\* C21 witness: a position was created from a positive balance with a stop
\* that is not one unit of price below the entry.
C21_Witness ==
    /\ posOut.op = "open_position"
    /\ posOut.ret # None
    /\ RLt(Zero, posOut.balance)
    /\ RSub(posOut.ret.entry_price, posOut.ret.stop_loss) # R(1)
    /\ posOut.ret.quantity # RMul(posOut.balance, RISK_PER_TRADE)


\* The stop open_position computes for an entry at price on history df.
EntryStop(df, price) ==
    IF RLt(LowestRecentLow(df, SWING_LOOKBACK), price)
    THEN LowestRecentLow(df, SWING_LOOKBACK)
    ELSE RMul(price, Norm(98, 100))

\* C22: when open_position cannot open (position limit reached, zero price
\* distance between entry and stop, or a computed quantity <= 0 as with a
\* non-positive balance) it returns None, raises nothing and leaves the
\* open positions and the closed log unchanged.
C22_DeclineLeavesStateAlone ==
    posOut.op = "open_position"
    => /\ (\/ Len(posOut.before.positions) >= MAX_POSITIONS
           \/ EntryStop(data, posOut.price) = posOut.price
           \/ RLe(posOut.balance, Zero))
          => posOut.ret = None
       /\ posOut.ret = None => run.strategy = posOut.before

\* C22 witness: open_position declined for a non-positive balance, below
\* the position limit, on a strategy with an open position and a closed
\* record.
C22_Witness ==
    /\ posOut.op = "open_position"
    /\ posOut.ret = None
    /\ RLe(posOut.balance, Zero)
    /\ EntryStop(data, posOut.price) # posOut.price
    /\ Len(posOut.before.positions) < MAX_POSITIONS
    /\ posOut.before.positions # <<>>
    /\ posOut.before.closed_positions # <<>>


\* C23: check_entry_signal(df) returns false when df has fewer than EMA_LONG
\* candles; otherwise it returns true iff, on the latest candle only,
\* ema_short > ema_long strictly (equal EMAs give no signal) and
\* ema_short * (1 - tolerance) <= close <= ema_short * (1 + tolerance), both
\* boundaries inclusive; it changes no strategy state.
C23_EntrySignal ==
    posOut.op = "check_entry_signal"
    => /\ Len(data) < EMA_LONG => posOut.ret = FALSE
       /\ Len(data) >= EMA_LONG
          => posOut.ret
               = (/\ RLt(data[Len(data)].ema_long, data[Len(data)].ema_short)
                  /\ RLe(RMul(data[Len(data)].ema_short,
                              RSub(R(1), ENTRY_PRICE_TOLERANCE)),
                         data[Len(data)].close)
                  /\ RLe(data[Len(data)].close,
                         RMul(data[Len(data)].ema_short,
                              RAdd(R(1), ENTRY_PRICE_TOLERANCE))))
       /\ run.strategy = posOut.before

\* C23 witness: a signal was given on a latest candle whose close lies
\* exactly on the lower tolerance boundary.
C23_Witness ==
    /\ posOut.op = "check_entry_signal"
    /\ posOut.ret = TRUE
    /\ data[Len(data)].close
         = RMul(data[Len(data)].ema_short, RSub(R(1), ENTRY_PRICE_TOLERANCE))


\* C24: update_balance(pnl, t) always increases current_balance by exactly
\* pnl and never changes initial_balance; when it performs a daily reset
\* the reset happens before pnl is applied, so afterwards
\* daily_start_balance is the balance before pnl and daily_pnl is pnl; when
\* it does not reset, daily_pnl grows by pnl and daily_start_balance is
\* unchanged.
C24_UpdateBalanceEffect ==
    \A k \in 1 .. Len(rmLog) :
        /\ rmLog[k].after.current_balance
             = RAdd(rmLog[k].before.current_balance, rmLog[k].pnl)
        /\ rmLog[k].after.initial_balance = rmLog[k].before.initial_balance
        /\ DateOf(rmLog[k].t) # rmLog[k].before.current_date
           => /\ rmLog[k].after.daily_start_balance
                   = rmLog[k].before.current_balance
              /\ rmLog[k].after.daily_pnl = rmLog[k].pnl
        /\ DateOf(rmLog[k].t) = rmLog[k].before.current_date
           => /\ rmLog[k].after.daily_start_balance
                   = rmLog[k].before.daily_start_balance
              /\ rmLog[k].after.daily_pnl
                   = RAdd(rmLog[k].before.daily_pnl, rmLog[k].pnl)

\* C24 witness: a call that did not reset was followed by a call that
\* reset, on a Risk Manager whose day already had a pnl.
C24_Witness ==
    \E k \in 2 .. Len(rmLog) :
        /\ DateOf(rmLog[k - 1].t) = rmLog[k - 1].before.current_date
        /\ DateOf(rmLog[k].t) # rmLog[k].before.current_date
        /\ rmLog[k].before.daily_pnl # Zero
        /\ rmLog[k].after.raised = ""
        /\ rmLog[k].after.daily_pnl = rmLog[k].pnl


\* C25: can_trade() returns (false, halt_reason) when trading_halted is
\* true, even if current_balance <= 0; otherwise (false, 'Account balance
\* depleted') when current_balance <= 0; otherwise (true, ''); it changes
\* no Risk Manager state.
C25_CanTradeContract ==
    [][(posOut'.op = "can_trade" /\ posOut' # posOut)
       => /\ posOut'.before = rm
          /\ rm' = rm
          /\ rm.trading_halted
             => posOut'.ret = <<FALSE, rm.halt_reason>>
          /\ (~rm.trading_halted /\ RLe(rm.current_balance, Zero))
             => posOut'.ret = <<FALSE, <<"Account balance depleted">>>>
          /\ (~rm.trading_halted /\ RLt(Zero, rm.current_balance))
             => posOut'.ret = <<TRUE, <<"">>>>]_vars

\* C25 witness: can_trade() was asked on a halted Risk Manager whose balance
\* is not positive and answered with the halt reason.
C25_Witness ==
    /\ posOut.op = "can_trade"
    /\ posOut.before.trading_halted
    /\ RLe(posOut.before.current_balance, Zero)
    /\ posOut.ret = <<FALSE, posOut.before.halt_reason>>
    /\ posOut.ret[2] # <<"Account balance depleted">>


\* C26: when the final trade log is empty the metrics report total_trades,
\* win_rate, profit_factor, max_drawdown, total_return, avg_win and avg_loss
\* all equal to 0 and final_balance = initial_balance; over a non-empty
\* candle sequence the log is empty exactly when no position was ever
\* opened.
C26_EmptyLogMetrics ==
    (mode = "backtest" /\ run.pc = "done")
    => /\ run.trades_log = <<>>
          => /\ run.metrics.total_trades = 0
             /\ run.metrics.win_rate = Zero
             /\ run.metrics.profit_factor = Zero
             /\ run.metrics.max_drawdown = Zero
             /\ run.metrics.total_return = Zero
             /\ run.metrics.avg_win = Zero
             /\ run.metrics.avg_loss = Zero
             /\ run.metrics.final_balance = run.initial_balance
       /\ data # <<>> => (run.trades_log = <<>> <=> run.opened = 0)

\* C26 witness: a run over candles past the warm-up returned with an empty
\* trade log and the initial balance as its final balance.
C26_Witness ==
    /\ mode = "backtest"
    /\ run.pc = "done"
    /\ Len(data) > EMA_LONG + 1
    /\ run.trades_log = <<>>
    /\ run.opened = 0
    /\ run.metrics.final_balance = run.initial_balance


\* The indices of the trades of a log with a pnl > 0, and with a pnl <= 0.
Winners(log) == { k \in 1 .. Len(log) : RLt(Zero, log[k].pnl) }
Losers(log)  == { k \in 1 .. Len(log) : RLe(log[k].pnl, Zero) }

\* The sum of the pnls of the trades of log at the indices ks.
RECURSIVE PnlOver(_, _)
PnlOver(log, ks) ==
    IF ks = {} THEN Zero
    ELSE LET k == CHOOSE x \in ks : TRUE
         IN  RAdd(log[k].pnl, PnlOver(log, ks \ {k}))

\* A Backtester run has returned the metrics of a non-empty trade log.
Reported == mode = "backtest" /\ run.pc = "done" /\ run.trades_log # <<>>

\* C27: for a non-empty trade log win_rate = 100 * (number of trades with
\* pnl > 0) / total_trades; a trade with pnl = 0 counts as a loser;
\* winning_trades + losing_trades = total_trades.
C27_WinRate ==
    Reported
    => /\ run.metrics.total_trades = Len(run.trades_log)
       /\ run.metrics.winning_trades = Cardinality(Winners(run.trades_log))
       /\ run.metrics.losing_trades = Cardinality(Losers(run.trades_log))
       /\ run.metrics.winning_trades + run.metrics.losing_trades
            = run.metrics.total_trades
       /\ run.metrics.win_rate
            = Norm(100 * Cardinality(Winners(run.trades_log)),
                   Len(run.trades_log))

\* C27 witness: the metrics of a log with a winner, a trade of pnl 0 and a
\* trade that lost.
C27_Witness ==
    /\ Reported
    /\ \E i, j, k \in 1 .. Len(run.trades_log) :
          /\ RLt(Zero, run.trades_log[i].pnl)
          /\ run.trades_log[j].pnl = Zero
          /\ RLt(run.trades_log[k].pnl, Zero)
    /\ run.metrics.losing_trades = Cardinality(Losers(run.trades_log))


\* C28: profit_factor = (sum of the pnls of the trades with pnl > 0) /
\* |sum of the pnls of the trades with pnl <= 0|, and it is 0 whenever that
\* denominator is 0 (no losing trades, or only zero-pnl losers), so a log
\* of only winning trades reports profit_factor 0.
C28_ProfitFactor ==
    Reported
    => /\ run.metrics.profit_factor
            = IF PnlOver(run.trades_log, Losers(run.trades_log)) = Zero
              THEN Zero
              ELSE RDiv(PnlOver(run.trades_log, Winners(run.trades_log)),
                        RAbs(PnlOver(run.trades_log, Losers(run.trades_log))))
       /\ Losers(run.trades_log) = {} => run.metrics.profit_factor = Zero

\* C28 witness: the metrics of a log of only winning trades, with profit
\* factor 0.
C28_Witness ==
    /\ Reported
    /\ Losers(run.trades_log) = {}
    /\ RLt(Zero, PnlOver(run.trades_log, Winners(run.trades_log)))
    /\ run.metrics.profit_factor = Zero


\* The mean pnl of the trades of log at the indices ks, 0 when there are
\* none.
MeanPnl(log, ks) ==
    IF ks = {} THEN Zero ELSE RDiv(PnlOver(log, ks), R(Cardinality(ks)))

\* C29 as stated: avg_win is the mean pnl over the trades with pnl > 0 and
\* avg_loss is the mean pnl over the trades with pnl <= 0; each is 0 when
\* its set is empty.
C29_AveragesAreMeans ==
    Reported
    => /\ run.metrics.avg_win
            = MeanPnl(run.trades_log, Winners(run.trades_log))
       /\ run.metrics.avg_loss
            = MeanPnl(run.trades_log, Losers(run.trades_log))

\* C29, amended: avg_win is the mean pnl over the trades with pnl > 0 and
\* avg_loss is the absolute value of the mean pnl over the trades with
\* pnl <= 0, a magnitude that is never negative; each is 0 when its set is
\* empty.
C29_AverageLossIsMagnitude ==
    Reported
    => /\ run.metrics.avg_win
            = MeanPnl(run.trades_log, Winners(run.trades_log))
       /\ run.metrics.avg_loss
            = RAbs(MeanPnl(run.trades_log, Losers(run.trades_log)))
       /\ RLe(Zero, run.metrics.avg_loss)

\* C29 witness: the metrics of a log with two winners of different pnl, a
\* zero-pnl trade and a trade that lost, with a positive avg_loss.
C29_Witness ==
    /\ Reported
    /\ \E i, j \in Winners(run.trades_log) :
          run.trades_log[i].pnl # run.trades_log[j].pnl
    /\ \E k \in Losers(run.trades_log) : run.trades_log[k].pnl = Zero
    /\ RLt(PnlOver(run.trades_log, Losers(run.trades_log)), Zero)
    /\ RLt(Zero, run.metrics.avg_loss)


\* The highest of the first t entries of an equity curve.
Peak(equity, t) ==
    CHOOSE x \in { equity[k] : k \in 1 .. t } :
        \A k \in 1 .. t : RLe(equity[k], x)

\* The decline at tick t from the peak so far, in percent of that peak.
DeclineAt(equity, t) ==
    RMul(RDiv(RSub(Peak(equity, t), equity[t]), Peak(equity, t)), R(100))

\* C30: max_drawdown is the maximum over the ticks t of
\* (peak(t) - equity(t)) / peak(t) * 100, peak being the prefix maximum of
\* the equity curve; it is always >= 0 and it is 0 exactly when the equity
\* curve never falls below its running peak.
C30_MaxDrawdown ==
    (mode = "backtest" /\ run.pc = "done")
    => /\ \E t \in 1 .. Len(run.equity_curve) :
             run.metrics.max_drawdown = DeclineAt(run.equity_curve, t)
       /\ \A t \in 1 .. Len(run.equity_curve) :
             RLe(DeclineAt(run.equity_curve, t), run.metrics.max_drawdown)
       /\ RLe(Zero, run.metrics.max_drawdown)
       /\ run.metrics.max_drawdown = Zero
          <=> \A t \in 1 .. Len(run.equity_curve) :
                 run.equity_curve[t] = Peak(run.equity_curve, t)

\* C30 witness: a run returned whose equity fell below its peak, by the
\* reported max_drawdown, and later rose above the point it fell to.
C30_Witness ==
    /\ mode = "backtest"
    /\ run.pc = "done"
    /\ RLt(Zero, run.metrics.max_drawdown)
    /\ \E t \in 1 .. Len(run.equity_curve) - 1 :
          /\ DeclineAt(run.equity_curve, t) = run.metrics.max_drawdown
          /\ RLt(run.equity_curve[t], run.equity_curve[Len(run.equity_curve)])


---------------------------------------------------------------------------
(* C31: on every strictly increasing close sequence longer than the        *)
(* warm-up, the Backtester opens at least one position at some tick        *)
(* i >= EMA_LONG: a run that returns after more than EMA_LONG rising        *)
(* candles has opened a position.                                           *)
C31_RisingRunOpens ==
    (mode = "rise" /\ run.pc = "done" /\ Len(data) > EMA_LONG)
        => run.opened >= 1


---------------------------------------------------------------------------
(* C32: on a strictly increasing close sequence no position ever closes    *)
(* with reason 'Stop Loss', and every trade record (a 'Take Profit' or a   *)
(* 'Backtest End' one) has pnl >= 0.                                        *)
C32_RisingRunNeverLoses ==
    mode = "rise" =>
        /\ \A k \in 1 .. Len(run.trades_log) :
              /\ run.trades_log[k].exit_reason \in {"Take Profit", "Backtest End"}
              /\ RLe(Zero, run.trades_log[k].pnl)
        /\ \A k \in 1 .. Len(run.strategy.closed_positions) :
              run.strategy.closed_positions[k].exit_reason # "Stop Loss"
        /\ data # <<>> => run.raised = ""

\* a rising run that returned with a 'Take Profit' record and a
\* 'Backtest End' record in profit
C32_Witness ==
    /\ mode = "rise"
    /\ run.pc = "done"
    /\ \E k \in 1 .. Len(run.trades_log) :
          run.trades_log[k].exit_reason = "Take Profit"
    /\ \E k \in 1 .. Len(run.trades_log) :
          /\ run.trades_log[k].exit_reason = "Backtest End"
          /\ RLt(Zero, run.trades_log[k].pnl)


---------------------------------------------------------------------------
\* update_positions with the per-tick order reversed: should_exit is asked
\* about the position as the previous tick left it, and update_trailing_stop
\* runs after it.
RECURSIVE update_positions_loop_exit_first(_, _, _, _)
update_positions_loop_exit_first(st, k, current_price, current_time) ==
    IF k > Len(st.positions) \/ st.raised # "" THEN st
    ELSE update_positions_loop_exit_first(
             update_positions_step(st, k,
                 update_trailing_stop(st.positions[k], current_price,
                                      TRAILING_STOP_PERCENT),
                 should_exit(st.positions[k], current_price),
                 current_price, current_time),
             k + 1, current_price, current_time)

update_positions_exit_first(s, current_price, current_time) ==
    update_positions_return(
        update_positions_loop_exit_first(
            [positions |-> s.positions, closed |-> <<>>,
             remaining |-> <<>>, closed_positions |-> s.closed_positions,
             raised |-> ""],
            1, current_price, current_time))

\* C33 as stated: reversing the per-tick order in update_positions
\* (should_exit before update_trailing_stop) changes which trades close:
\* for some position the strategy holds or can come to hold and some price,
\* the reversed order closes it in a different tick or with a different
\* reason, or leaves it in a different state, than update-then-exit.
C33_ReversedOrderDiffers ==
    \E p \in HeldPositions(MaxTrail, run.strategy, data), price \in StratPrices :
        update_positions_exit_first(Holding(p), R(price), Stamp(0, 1))
            # update_positions(Holding(p), R(price), Stamp(0, 1))

\* C33, amended: at every update_positions call the reversed order
\* (should_exit before update_trailing_stop) returns the same closed
\* records, with the same reasons, and leaves the same open positions with
\* the same stops as the implemented order, so no sequence of ticks tells
\* the two apart.
C33_ReversedOrderAgrees ==
    posOut.op = "update_positions"
    => /\ update_positions_exit_first(posOut.before, posOut.price,
                                      Stamp(0, 1)).closed = posOut.ret
       /\ update_positions_exit_first(posOut.before, posOut.price,
                                      Stamp(0, 1)).strategy = run.strategy

\* C33 witness: a tick in which the trailing update strictly raised the stop
\* of one position, which stayed open, while another was closed with
\* 'Stop Loss'.
C33_Witness ==
    /\ posOut.op = "update_positions"
    /\ \E k \in 1 .. Len(posOut.before.positions) :
          /\ StopRaisedAt(posOut.before.positions[k], posOut.price)
          /\ HeldOpen(run.strategy,
                      update_trailing_stop(posOut.before.positions[k],
                                           posOut.price,
                                           TRAILING_STOP_PERCENT))
    /\ \E j \in 1 .. Len(posOut.ret) : posOut.ret[j].exit_reason = "Stop Loss"


---------------------------------------------------------------------------
(* C34: at the end of every Backtester tick and after run(),               *)
(* risk_manager.current_balance = initial_balance + the sum of pnl over    *)
(* all records of trades_log, and the final_balance and total_pnl that     *)
(* run() reports agree with that sum (total_pnl is reported when the log   *)
(* is not empty).                                                           *)
C34_BalanceIsInitialPlusLoggedPnl ==
    (mode = "backtest" /\ run.pc \in {"loop", "done"})
    => /\ run.risk_manager.current_balance
            = RAdd(run.initial_balance,
                   SumPnl(run.trades_log, Len(run.trades_log)))
       /\ run.pc = "done"
          => /\ run.metrics.final_balance
                  = RAdd(run.initial_balance,
                         SumPnl(run.trades_log, Len(run.trades_log)))
             /\ run.trades_log # <<>>
                => run.metrics.total_pnl
                     = SumPnl(run.trades_log, Len(run.trades_log))

\* a run that returned with a record logged by a tick and a 'Backtest End'
\* record, the pnls not cancelling
C34_Witness ==
    /\ mode = "backtest"
    /\ run.pc = "done"
    /\ \E j, k \in 1 .. Len(run.trades_log) :
          /\ run.trades_log[j].exit_reason # "Backtest End"
          /\ run.trades_log[j].pnl # Zero
          /\ run.trades_log[k].exit_reason = "Backtest End"
          /\ run.trades_log[k].pnl # Zero
    /\ run.metrics.total_pnl # Zero


---------------------------------------------------------------------------
(* C35: after every update_positions(price) each position that remains     *)
(* open satisfies stop_loss < price < take_profit, and every open position *)
(* satisfies stop_loss < take_profit at all times: the trailing stop never *)
(* rises to or above the take profit of a position that is still open.     *)
C35_OpenPositionsBracketPrice ==
    /\ \A k \in 1 .. Len(run.strategy.positions) :
          RLt(run.strategy.positions[k].stop_loss,
              run.strategy.positions[k].take_profit)
    /\ posOut.op = "update_positions"
       => \A k \in 1 .. Len(run.strategy.positions) :
             /\ RLt(run.strategy.positions[k].stop_loss, posOut.price)
             /\ RLt(posOut.price, run.strategy.positions[k].take_profit)

\* an update_positions call that closed a position and left open one whose
\* stop it raised above its entry price
C35_Witness ==
    /\ posOut.op = "update_positions"
    /\ posOut.ret # <<>>
    /\ \E k \in 1 .. Len(run.strategy.positions) :
          /\ run.strategy.positions[k].trailing_stop_active
          /\ RLt(run.strategy.positions[k].entry_price,
                 run.strategy.positions[k].stop_loss)
          /\ \E j \in 1 .. Len(posOut.before.positions) :
                /\ StopRaisedAt(posOut.before.positions[j], posOut.price)
                /\ run.strategy.positions[k]
                     = update_trailing_stop(posOut.before.positions[j],
                                            posOut.price, TRAILING_STOP_PERCENT)


---------------------------------------------------------------------------
(* C36: if trading is halted by the daily-loss limit and ticks continue on *)
(* later calendar dates, can_trade() returns true again and entries resume *)
(* on a following day, also when no position is open at the moment of the  *)
(* halt: a poll of the live bot on a later date than the closure that      *)
(* halted trading, with no position open and a positive balance, finds the *)
(* gate open.                                                               *)
HaltedIdle ==
    /\ run.pc = "loop"
    /\ run.risk_manager.trading_halted
    /\ run.strategy.positions = <<>>
    /\ RLt(Zero, run.risk_manager.current_balance)

C36_HaltedIdleStays ==
    [][(HaltedIdle /\ data' # data /\ run'.pc = "loop")
       => /\ run'.risk_manager = run.risk_manager
          /\ run'.strategy = run.strategy
          /\ ~run'.last.gate]_vars


---------------------------------------------------------------------------
(* C37: after Backtester.run() the last entry of the equity curve equals   *)
(* final_balance: the pnl of the positions force-closed at 'Backtest End'  *)
(* is reflected in the equity curve, and so in max_drawdown.               *)
C37_EquityCurveEndsAtFinalBalance ==
    (mode = "backtest" /\ run.pc = "done")
    => run.equity_curve[Len(run.equity_curve)] = run.metrics.final_balance


---------------------------------------------------------------------------
(* C38: the metrics dict that run() / calculate_performance_metrics        *)
(* returns has the same set of keys whether or not any trade was closed,   *)
(* so print_results() called after a run completes without a missing-key   *)
(* error, also after a run with zero trades.                                *)
MetricsKeys ==
    {"total_trades", "winning_trades", "losing_trades", "win_rate",
     "profit_factor", "max_drawdown", "initial_balance", "final_balance",
     "total_return", "avg_win", "avg_loss", "total_pnl"}

C38_MetricsKeysAreUniform ==
    (mode = "backtest" /\ run.pc = "done")
    => /\ DOMAIN run.metrics = MetricsKeys
       /\ print_results(run) = ""


---------------------------------------------------------------------------
(* C39: during the Backtester tick loop trades_log equals                  *)
(* strategy.closed_positions record for record and in the same order;      *)
(* after run() trades_log is strategy.closed_positions followed only by    *)
(* the 'Backtest End' records, which are never added to                     *)
(* strategy.closed_positions.                                               *)
C39_TradesLogMirrorsClosedPositions ==
    mode = "backtest"
    => /\ run.pc = "loop" => run.trades_log = run.strategy.closed_positions
       /\ run.pc = "done"
          => /\ Len(run.strategy.closed_positions) <= Len(run.trades_log)
             /\ SubSeq(run.trades_log, 1, Len(run.strategy.closed_positions))
                  = run.strategy.closed_positions
             /\ \A k \in Len(run.strategy.closed_positions) + 1
                           .. Len(run.trades_log) :
                   run.trades_log[k].exit_reason = "Backtest End"
       /\ \A k \in 1 .. Len(run.strategy.closed_positions) :
             run.strategy.closed_positions[k].exit_reason # "Backtest End"

\* a run that returned after ticks had closed two positions, with two more
\* closed at 'Backtest End'
C39_Witness ==
    /\ mode = "backtest"
    /\ run.pc = "done"
    /\ Len(run.strategy.closed_positions) >= 2
    /\ run.strategy.closed_positions[1] # run.strategy.closed_positions[2]
    /\ Len(run.trades_log) >= Len(run.strategy.closed_positions) + 2


---------------------------------------------------------------------------
\* The open positions of strategy s that update_positions(current_price)
\* leaves open, as they were before the call and in their order.
Kept(s, current_price) ==
    LET Stays(p) ==
            ~should_exit(update_trailing_stop(p, current_price,
                                              TRAILING_STOP_PERCENT),
                         current_price)[1]
    IN  SelectSeq(s.positions, Stays)

(* C40: for every position at all times highest_price >= entry_price and   *)
(* highest_price never decreases; once trailing_stop_active is true it     *)
(* never becomes false again and stop_loss >= highest_price * (1 -          *)
(* TRAILING_STOP_PERCENT): under update_positions the stop trails the       *)
(* high-water mark by at most the trailing percentage.                      *)
C40_HighWaterMark ==
    /\ \A k \in 1 .. Len(run.strategy.positions) :
          /\ RLe(run.strategy.positions[k].entry_price,
                 run.strategy.positions[k].highest_price)
          /\ run.strategy.positions[k].trailing_stop_active
             => RLe(RMul(run.strategy.positions[k].highest_price,
                         RSub(R(1), TRAILING_STOP_PERCENT)),
                    run.strategy.positions[k].stop_loss)
    /\ posOut.op = "update_positions"
       => /\ Len(run.strategy.positions)
               = Len(Kept(posOut.before, posOut.price))
          /\ \A k \in 1 .. Len(run.strategy.positions) :
                /\ run.strategy.positions[k].entry_price
                     = Kept(posOut.before, posOut.price)[k].entry_price
                /\ RLe(Kept(posOut.before, posOut.price)[k].highest_price,
                       run.strategy.positions[k].highest_price)
                /\ Kept(posOut.before, posOut.price)[k].trailing_stop_active
                   => run.strategy.positions[k].trailing_stop_active

\* an update_positions call at a price below the high-water mark of a
\* position whose trailing stop is active, which it leaves open
C40_Witness ==
    /\ posOut.op = "update_positions"
    /\ \E k \in 1 .. Len(run.strategy.positions) :
          /\ run.strategy.positions[k].trailing_stop_active
          /\ RLt(posOut.price, run.strategy.positions[k].highest_price)
          /\ RLt(run.strategy.positions[k].entry_price,
                 run.strategy.positions[k].stop_loss)

===========================================================================
